---- MODULE Spec2Model ----
(***************************************************************************)
(* Model of the puzh simulation engine (src/src/main.rs): the Game session *)
(* state, the movement resolver obj_move, the behaviour rules              *)
(* handle_sapling / handle_bunnies, the ray propagation of                 *)
(* EventHandler::update and the key handler key_down_event.                *)
(***************************************************************************)
EXTENDS Integers, Sequences, FiniteSets, TLC

----------------------------------------------------------------------------
(* Bounds of the model *)

\* step_count is a u32; moves are accepted by the model while it is below this
MaxSteps == 2
\* reset_count is a u32; resets are taken by the model while it is below this
MaxResets == 1
\* shoot commands that fire at least one ray are taken while the deepest
\* Raygun(TurnInto(..)) nesting on the grid is below this
MaxNest == 2

----------------------------------------------------------------------------
(* Grid geometry: Grid::W, Grid::H *)

W == 12
H == 12

TileIdx == 0 .. (W * H - 1)

\* Grid::index: Some(y * W + x) inside the grid, None (here -1) outside
Index(coords) ==
    IF 0 <= coords[1] /\ coords[1] < W /\ 0 <= coords[2] /\ coords[2] < H
    THEN coords[2] * W + coords[1]
    ELSE -1

InGrid(coords) == Index(coords) >= 0

\* the coordinates of the i-th tile of Grid::tiles (row-major)
Coord(i) == << i % W, i \div W >>

Add(a, b) == << a[1] + b[1], a[2] + b[2] >>
Sub(a, b) == << a[1] - b[1], a[2] - b[2] >>
Neg(a) == << -a[1], -a[2] >>

\* the neighbour order used by line_of_sights_to and player_shoot
Dirs == << <<1, 0>>, <<0, 1>>, <<-1, 0>>, <<0, -1>> >>
DirSet == { Dirs[i] : i \in 1..4 }

----------------------------------------------------------------------------
(* ObjKind, RaygunKind: a kind is a sequence of tags, so that               *)
(* Raygun(TurnInto(k)) nests: <<"Raygun", "TurnInto">> \o k                 *)

Player == << "Player" >>
Rock == << "Rock" >>
Wall == << "Wall" >>
Rope == << "Rope" >>
Soap == << "Soap" >>
Mirror == << "Mirror" >>
MirrorSlopeUp == << "MirrorSlopeUp" >>
MirrorSlopeDown == << "MirrorSlopeDown" >>
Tree == << "Tree" >>
Axe == << "Axe" >>
WallWithHoles == << "WallWithHoles" >>
Cheese == << "Cheese" >>
Bunny == << "Bunny" >>
Door == << "Door" >>
Key == << "Key" >>
RaygunSwapWithShooter == << "Raygun", "SwapWithShooter" >>
RaygunDuplicateShootee == << "Raygun", "DuplicateShootee" >>
RaygunTurnIntoTurnInto == << "Raygun", "TurnIntoTurnInto" >>
RaygunTurnInto(kind) == << "Raygun", "TurnInto" >> \o kind

IsRaygun(kind) == Len(kind) >= 2 /\ kind[1] = "Raygun"

\* number of Raygun(TurnInto(..)) wrappers of a kind
Nesting(kind) == Len(kind) \div 2

----------------------------------------------------------------------------
(* Obj, Ground, Exit, Tile *)

\* Option<Obj>::None
None == [kind |-> << >>, processed |-> FALSE, moved |-> FALSE, animation |-> "None"]

IsSome(obj) == obj.kind # << >>

\* Obj::from_kind
FromKind(kind) == [kind |-> kind, processed |-> FALSE, moved |-> FALSE, animation |-> "None"]

\* a bug: Rayguns, mirrors and Cheese cannot move either
CanMoveFewer(obj) ==
    /\ obj.kind \notin {Wall, Tree, WallWithHoles, Door,
                         Mirror, MirrorSlopeUp, MirrorSlopeDown, Cheese}
    /\ ~IsRaygun(obj.kind)

\* Obj::can_move
CanMove(obj) == obj.kind \notin {Wall, Tree, WallWithHoles, Door}

Grass == [ground |-> "Grass", stepped_on |-> FALSE]
Sapling(stepped_on) == [ground |-> "Sapling", stepped_on |-> stepped_on]
Ice == [ground |-> "Ice", stepped_on |-> FALSE]

\* Option<Exit>::None
NoExit == [direction |-> <<0, 0>>, dst_level_id |-> ""]
Exit(direction, dst_level_id) == [direction |-> direction, dst_level_id |-> dst_level_id]

\* Tile::new
NewTile == [obj |-> None, ground |-> Grass, exit |-> NoExit]

\* Grid::new
NewGrid == [i \in TileIdx |-> NewTile]

\* Grid::get(coords).obj, None when the coordinates are off the board
ObjAt(grid, coords) == IF InGrid(coords) THEN grid[Index(coords)].obj ELSE None

SetObj(grid, coords, obj) == [grid EXCEPT ![Index(coords)].obj = obj]

\* A local variable of the program, which holds a value computed once, is
\* written  CHOOSE result \in { F(x) : x \in {e} } : TRUE  where a plain
\* LET x == e IN F(x) would have e evaluated again at every use of x.

----------------------------------------------------------------------------
(* Game session: the record g holds the fields of Game that the handlers    *)
(* mutate. g.panicked is set when a handler hits a fatal error (an unwrap   *)
(* of None); g.switches counts the go_to_level calls of the current         *)
(* handler.                                                                 *)

\* Level { grid, id, entry_coords, entry_direction }
MakeLevel(id, grid, entry_coords, entry_direction) ==
    [id |-> id, grid |-> grid, entry_coords |-> entry_coords,
     entry_direction |-> entry_direction]

\* the Player placed on the entry tile, with its CommingFrom animation
EnteringPlayer == [FromKind(Player) EXCEPT !.animation = "CommingFrom"]

\* a clone of the level's template grid with a Player on the entry tile
EnterGrid(lvl) == SetObj(lvl.grid, lvl.entry_coords, EnteringPlayer)

\* a bug: go_to_level banks nothing
GoToLevelNoBank(g, levels, level_id) ==
    IF level_id \notin DOMAIN levels
    THEN [g EXCEPT !.panicked = TRUE]
    ELSE [g EXCEPT !.cheese_count_got_here = 0,
                   !.step_count_at_level_start = g.step_count,
                   !.level = levels[level_id],
                   !.grid = EnterGrid(levels[level_id]),
                   !.rays = << >>,
                   !.switches = g.switches + 1]

\* a bug: the Player is placed in the level's own grid, not only in the clone
GoToLevelIntoTemplate(g, levels, level_id) ==
    IF level_id \notin DOMAIN levels
    THEN [g EXCEPT !.panicked = TRUE]
    ELSE [g EXCEPT !.cheese_count = g.cheese_count + g.cheese_count_got_here,
                   !.cheese_count_got_here = 0,
                   !.step_count_at_level_start = g.step_count,
                   !.level = [levels[level_id] EXCEPT !.grid = EnterGrid(levels[level_id])],
                   !.grid = EnterGrid(levels[level_id]),
                   !.rays = << >>,
                   !.switches = g.switches + 1]

\* Game::go_to_level; levels is Game::all_levels
GoToLevel(g, levels, level_id) ==
    IF level_id \notin DOMAIN levels
    THEN [g EXCEPT !.panicked = TRUE]
    ELSE [g EXCEPT !.cheese_count = g.cheese_count + g.cheese_count_got_here,
                   !.cheese_count_got_here = 0,
                   !.step_count_at_level_start = g.step_count,
                   !.level = levels[level_id],
                   !.grid = EnterGrid(levels[level_id]),
                   !.rays = << >>,
                   !.switches = g.switches + 1]

\* the loop body of clear_processed_flags, clear_moved_flags, clear_animations
ClearTile(tile) ==
    IF IsSome(tile.obj)
    THEN [tile EXCEPT !.obj.processed = FALSE, !.obj.moved = FALSE,
                      !.obj.animation = "None"]
    ELSE tile

\* Game::clear_processed_flags, clear_moved_flags, clear_animations
ClearFlags(grid) ==
    CHOOSE result \in { [i \in TileIdx |-> ClearTile(tiles[i])] : tiles \in {grid} } : TRUE

\* the loop body of handle_sapling
SaplingTile(tile, can_grow) ==
    IF tile.ground.ground = "Sapling"
    THEN IF tile.ground.stepped_on /\ ~IsSome(tile.obj) /\ can_grow
         THEN [tile EXCEPT !.ground = Grass, !.obj = FromKind(Tree)]
         ELSE IF ~tile.ground.stepped_on /\ IsSome(tile.obj)
              THEN [tile EXCEPT !.ground = Sapling(TRUE)]
              ELSE tile
    ELSE tile

\* Game::handle_sapling
HandleSapling(grid, can_grow) ==
    CHOOSE result \in { [i \in TileIdx |-> SaplingTile(tiles[i], can_grow)] :
                            tiles \in {grid} } : TRUE

----------------------------------------------------------------------------
(* Movement resolver: Game::obj_move *)

\* a bug: the destination is the tile the object is on
SlideDstStaysPut(grid, coords_dst, direction) == Sub(coords_dst, direction)

\* a bug: no lookahead, the destination is the next tile
SlideDstNextTile(grid, coords_dst, direction) == coords_dst

RECURSIVE SlideDst(_, _, _)
\* the ice-slide lookahead loop of obj_move
SlideDst(grid, coords_dst, direction) ==
    IF /\ InGrid(coords_dst)
       /\ ~IsSome(ObjAt(grid, coords_dst))
       /\ grid[Index(coords_dst)].ground = Ice
       /\ InGrid(Add(coords_dst, direction))
       /\ ~IsSome(ObjAt(grid, Add(coords_dst, direction)))
    THEN SlideDst(grid, Add(coords_dst, direction), direction)
    ELSE coords_dst

\* the exit check of obj_move: a Player on an Exit of the move's direction
ExitsLevel(tile, direction) ==
    /\ tile.obj.kind = Player
    /\ tile.exit # NoExit
    /\ tile.exit.direction = direction

\* a bug: a Key pushes the Door it meets
InteractionNoOpen(obj, obj_dst) ==
    IF obj_dst.kind = Soap THEN "soap"
    ELSE IF obj.kind = Axe /\ obj_dst.kind = Tree THEN "cut"
    ELSE IF obj.kind = Player /\ obj_dst.kind = Cheese THEN "eat"
    ELSE "push"

\* a bug: a Player pushes the Cheese it meets
InteractionNoEat(obj, obj_dst) ==
    IF obj_dst.kind = Soap THEN "soap"
    ELSE IF obj.kind = Axe /\ obj_dst.kind = Tree THEN "cut"
    ELSE IF obj.kind = Key /\ obj_dst.kind = Door THEN "open"
    ELSE "push"

\* a bug: an Axe does not cut the Tree it meets
InteractionNoCut(obj, obj_dst) ==
    IF obj_dst.kind = Soap THEN "soap"
    ELSE IF obj.kind = Player /\ obj_dst.kind = Cheese THEN "eat"
    ELSE IF obj.kind = Key /\ obj_dst.kind = Door THEN "open"
    ELSE "push"

\* a bug: a Soap is pushed like any other object
InteractionSoapPushed(obj, obj_dst) ==
    IF obj.kind = Axe /\ obj_dst.kind = Tree THEN "cut"
    ELSE IF obj.kind = Player /\ obj_dst.kind = Cheese THEN "eat"
    ELSE IF obj.kind = Key /\ obj_dst.kind = Door THEN "open"
    ELSE "push"

\* which branch of obj_move's occupied-destination chain applies
Interaction(obj, obj_dst) ==
    IF obj_dst.kind = Soap THEN "soap"
    ELSE IF obj.kind = Axe /\ obj_dst.kind = Tree THEN "cut"
    ELSE IF obj.kind = Player /\ obj_dst.kind = Cheese THEN "eat"
    ELSE IF obj.kind = Key /\ obj_dst.kind = Door THEN "open"
    ELSE "push"

\* a bug: a destination that is no tile counts as free
ShallMoveOffBoard(grid, coords_dst) == ~IsSome(ObjAt(grid, coords_dst))

\* a bug: the destination is not re-checked after the nested push
ShallMoveUnchecked(grid, coords_dst) == InGrid(coords_dst)

\* the final occupancy check of obj_move: shall_move (else failed_to_move)
ShallMove(grid, coords_dst) ==
    InGrid(coords_dst) /\ ~IsSome(ObjAt(grid, coords_dst))

\* a bug: the Soap taken out of the destination is dropped
SoapLost(soap) == None

\* the soap put back on the vacated tile
SoapBack(soap) ==
    IF soap.animation = "None"
    THEN [soap EXCEPT !.animation = "CommingFrom", !.moved = TRUE]
    ELSE soap

\* a bug: growth is not suppressed in the relocation of obj_move
RelocateGrows(g, coords, coords_dst, soap) ==
    LET obj == ObjAt(g.grid, coords) IN
    IF ~IsSome(obj)
    THEN [g EXCEPT !.panicked = TRUE]
    ELSE LET moved == [obj EXCEPT !.moved = TRUE, !.animation = "CommingFrom"]
             grid1 == SetObj(SetObj(g.grid, coords, None), coords_dst, moved)
             grid2 == IF IsSome(soap) THEN SetObj(grid1, coords, SoapBack(soap))
                      ELSE grid1
         IN [g EXCEPT !.grid = HandleSapling(grid2, TRUE)]

\* a bug: the object is copied to the destination, the source tile keeps it
RelocateCopies(g, coords, coords_dst, soap) ==
    LET obj == ObjAt(g.grid, coords) IN
    IF ~IsSome(obj)
    THEN [g EXCEPT !.panicked = TRUE]
    ELSE LET moved == [obj EXCEPT !.moved = TRUE, !.animation = "CommingFrom"]
             grid1 == SetObj(g.grid, coords_dst, moved)
             grid2 == IF IsSome(soap) THEN SetObj(grid1, coords, SoapBack(soap))
                      ELSE grid1
         IN [g EXCEPT !.grid = HandleSapling(grid2, FALSE)]

\* the relocation of obj_move; taking the object out of an empty source tile
\* is the unwrap of None
Relocate(g, coords, coords_dst, soap) ==
    LET obj == ObjAt(g.grid, coords) IN
    IF ~IsSome(obj)
    THEN [g EXCEPT !.panicked = TRUE]
    ELSE LET moved == [obj EXCEPT !.moved = TRUE, !.animation = "CommingFrom"]
             grid1 == SetObj(SetObj(g.grid, coords, None), coords_dst, moved)
             grid2 == IF IsSome(soap) THEN SetObj(grid1, coords, SoapBack(soap))
                      ELSE grid1
         IN [g EXCEPT !.grid = HandleSapling(grid2, FALSE)]

\* the failed_to_move branch of obj_move
FailToMove(g, coords) ==
    IF IsSome(ObjAt(g.grid, coords))
    THEN [g EXCEPT !.grid[Index(coords)].obj.animation = "FailingToMoveTo"]
    ELSE g

\* a bug: only a Rope that moved pulls, the tile behind is not looked at
PullsBehindRopeOnly(grid, coords_maybe_pulled, obj_is_rope) == obj_is_rope

\* the rope condition of obj_move
PullsRope(grid, coords_maybe_pulled, obj_is_rope) ==
    obj_is_rope \/ ObjAt(grid, coords_maybe_pulled).kind = Rope

RECURSIVE ObjMove(_, _, _, _, _)

\* obj_move, the first look at the destination: Soap is taken out, a Tree is
\* cut, a Cheese eaten, a Door opened, anything else is pushed.
\* The result is [g, soap_getting_back, key_got_in_door]
Contact(g, levels, coords, coords_dst, direction) ==
    LET obj == ObjAt(g.grid, coords)
        obj_dst == ObjAt(g.grid, coords_dst)
        what == IF IsSome(obj_dst) THEN Interaction(obj, obj_dst) ELSE "none"
    IN CASE what = "none" ->
              [g |-> g, soap_getting_back |-> None, key_got_in_door |-> FALSE]
         [] what = "soap" ->
              [g |-> [g EXCEPT !.grid = SetObj(g.grid, coords_dst, None)],
               soap_getting_back |-> obj_dst, key_got_in_door |-> FALSE]
         [] what = "cut" ->
              [g |-> [g EXCEPT !.grid = SetObj(g.grid, coords_dst, None)],
               soap_getting_back |-> None, key_got_in_door |-> FALSE]
         [] what = "eat" ->
              [g |-> [g EXCEPT !.grid = SetObj(g.grid, coords_dst, None),
                               !.cheese_count_got_here = g.cheese_count_got_here + 1],
               soap_getting_back |-> None, key_got_in_door |-> FALSE]
         [] what = "open" ->
              [g |-> [g EXCEPT !.grid = SetObj(SetObj(g.grid, coords, None),
                                               coords_dst, None)],
               soap_getting_back |-> None, key_got_in_door |-> TRUE]
         [] what = "push" ->
              [g |-> ObjMove(g, levels, coords_dst, direction, TRUE),
               soap_getting_back |-> None, key_got_in_door |-> FALSE]

\* obj_move, the second look at the destination: a Soap that is there now is
\* taken out
SoapAgain(c, coords_dst) ==
    IF ~c.g.panicked /\ ObjAt(c.g.grid, coords_dst).kind = Soap
    THEN [c EXCEPT !.g.grid = SetObj(c.g.grid, coords_dst, None),
                   !.soap_getting_back = ObjAt(c.g.grid, coords_dst)]
    ELSE c

\* obj_move, the move itself: [g, shall_move, obj_is_rope]
Settle(c, coords, coords_dst) ==
    IF c.g.panicked
    THEN [g |-> c.g, shall_move |-> FALSE, obj_is_rope |-> FALSE]
    ELSE IF ShallMove(c.g.grid, coords_dst)
    THEN IF ~c.key_got_in_door
         THEN [g |-> Relocate(c.g, coords, coords_dst, c.soap_getting_back),
               shall_move |-> TRUE,
               obj_is_rope |-> ObjAt(c.g.grid, coords).kind = Rope]
         ELSE [g |-> c.g, shall_move |-> TRUE, obj_is_rope |-> FALSE]
    ELSE [g |-> FailToMove(c.g, coords), shall_move |-> FALSE, obj_is_rope |-> FALSE]

\* obj_move, the rope propagation
Pull(s, levels, coords, direction, pushed) ==
    IF /\ ~s.g.panicked
       /\ s.shall_move
       /\ ~pushed
       /\ PullsRope(s.g.grid, Sub(coords, direction), s.obj_is_rope)
    THEN ObjMove(s.g, levels, Sub(coords, direction), direction, FALSE)
    ELSE s.g

\* obj_move for an object that is there, is no leaving Player and can move
Resolve(g, levels, coords, coords_dst, direction, pushed) ==
    Pull(Settle(SoapAgain(Contact(g, levels, coords, coords_dst, direction),
                          coords_dst),
                coords, coords_dst),
         levels, coords, direction, pushed)

\* Game::obj_move
ObjMove(g, levels, coords, direction, pushed) ==
    IF ~IsSome(ObjAt(g.grid, coords)) THEN g
    ELSE IF ExitsLevel(g.grid[Index(coords)], direction)
    THEN GoToLevel(g, levels, g.grid[Index(coords)].exit.dst_level_id)
    ELSE IF ~CanMove(ObjAt(g.grid, coords)) THEN g
    ELSE Resolve(g, levels, coords,
                 SlideDst(g.grid, Add(coords, direction), direction),
                 direction, pushed)

----------------------------------------------------------------------------
(* Behaviour rules: Game::line_of_sights_to, Game::handle_bunnies *)

RECURSIVE SeesAlong(_, _, _, _)
\* the loop of line_of_sights_to for one direction: walking outward from
\* coords, the first occupied tile holds a to_what
SeesAlong(grid, coords, direction, to_what) ==
    LET next == Add(coords, direction) IN
    IF ~InGrid(next) THEN FALSE
    ELSE IF IsSome(ObjAt(grid, next)) THEN ObjAt(grid, next).kind = to_what
    ELSE SeesAlong(grid, next, direction, to_what)

\* Game::line_of_sights_to, as the set of indices into Dirs
LineOfSightsTo(grid, coords, to_what) ==
    { k \in 1..4 : SeesAlong(grid, coords, Dirs[k], to_what) }

\* the retain filter of handle_bunnies: the tile opposite to dir exists and is
\* empty or holds something that can move
CanRetreatFrom(grid, coords, dir) ==
    LET back == Sub(coords, dir) IN
    InGrid(back) /\ (~IsSome(ObjAt(grid, back)) \/ CanMove(ObjAt(grid, back)))

RECURSIVE SumDirs(_)
SumDirs(ks) ==
    IF ks = {} THEN <<0, 0>>
    ELSE LET k == CHOOSE x \in ks : TRUE IN Add(Dirs[k], SumDirs(ks \ {k}))

\* the sum of the directions a Bunny at coords is scared from
ScarredDir(grid, coords) ==
    SumDirs({ k \in LineOfSightsTo(grid, coords, Player) :
                  CanRetreatFrom(grid, coords, Dirs[k]) })

Abs(n) == IF n < 0 THEN -n ELSE n

\* the first tile from i on, in row-major order, that satisfies Wanted
\* (W * H when there is none): where a scanning loop next finds work
FirstFrom(wanted, i) ==
    IF \E j \in wanted : j >= i
    THEN CHOOSE j \in wanted : j >= i /\ \A k \in wanted : k >= i => j <= k
    ELSE W * H

\* a bug: a Bunny flees whenever the sum is not zero
ScaredBunniesAnySum(grid) ==
    { j \in TileIdx :
        /\ grid[j].obj.kind = Bunny
        /\ ~grid[j].obj.processed
        /\ LET scarred_dir == ScarredDir(grid, Coord(j))
           IN Abs(scarred_dir[1]) + Abs(scarred_dir[2]) # 0 }

\* the tiles whose Bunny handle_bunnies moves: unprocessed and scared from
\* exactly one direction
ScaredBunnies(grid) ==
    { j \in TileIdx :
        /\ grid[j].obj.kind = Bunny
        /\ ~grid[j].obj.processed
        /\ LET scarred_dir == ScarredDir(grid, Coord(j))
           IN Abs(scarred_dir[1]) + Abs(scarred_dir[2]) = 1 }

RECURSIVE BunnyScan(_, _, _)
\* the row-major loop of handle_bunnies from tile i on
BunnyScan(g, levels, i) ==
    LET j == FirstFrom(ScaredBunnies(g.grid), i) IN
    IF j >= W * H \/ g.panicked THEN g
    ELSE BunnyScan(
           ObjMove([g EXCEPT !.grid[j].obj.processed = TRUE], levels,
                   Coord(j), Neg(ScarredDir(g.grid, Coord(j))), FALSE),
           levels, j + 1)

\* Game::handle_bunnies
HandleBunnies(g, levels) == BunnyScan(g, levels, 0)

----------------------------------------------------------------------------
(* Turn-level operations: Game::player_move, Game::player_shoot *)

\* a bug: the loop of player_move does not look at the moved flag
WaitingPlayersMovedToo(grid) ==
    { j \in TileIdx : grid[j].obj.kind = Player /\ ~grid[j].obj.processed }

\* the tiles whose Player the loop of player_move moves
WaitingPlayers(grid) ==
    { j \in TileIdx :
        grid[j].obj.kind = Player /\ ~grid[j].obj.processed /\ ~grid[j].obj.moved }

RECURSIVE PlayerScan(_, _, _, _)
\* the row-major Player loop of player_move from tile i on
PlayerScan(g, levels, direction, i) ==
    LET j == FirstFrom(WaitingPlayers(g.grid), i) IN
    IF j >= W * H \/ g.panicked THEN g
    ELSE PlayerScan(
           ObjMove([g EXCEPT !.grid[j].obj.processed = TRUE], levels,
                   Coord(j), direction, FALSE),
           levels, direction, j + 1)

\* the tail of player_move after the Player loop
AfterPlayers(g, levels) ==
    LET g1 == [g EXCEPT !.step_count = g.step_count + 1,
                        !.grid = HandleSapling(g.grid, TRUE)]
        g2 == HandleBunnies(g1, levels)
    IN IF g2.panicked THEN g2
       ELSE [g2 EXCEPT !.grid = HandleSapling(g2.grid, TRUE)]

\* Game::player_move
PlayerMove(g, levels, direction) ==
    LET g1 == PlayerScan([g EXCEPT !.grid = ClearFlags(g.grid)], levels, direction, 0)
    IN IF g1.panicked THEN g1 ELSE AfterPlayers(g1, levels)

\* the RayAction a Raygun of this kind gives its ray, shot from coords
ActionOf(kind, coords) ==
    [type |-> IF kind[2] = "SwapWithShooter" THEN "SwapWith"
              ELSE IF kind[2] = "DuplicateShootee" THEN "Duplicate"
              ELSE kind[2],
     with_who_coords |-> IF kind[2] = "SwapWithShooter" THEN coords ELSE <<0, 0>>,
     into_what |-> IF kind[2] = "TurnInto" THEN SubSeq(kind, 3, Len(kind)) ELSE << >>]

\* a bug: the loop over the neighbours stops at the first Raygun
NeighboorRaysFirstOnly(grid, coords, k) ==
    LET guns == { j \in k..4 : IsRaygun(ObjAt(grid, Add(coords, Dirs[j])).kind) }
    IN IF guns = {} THEN << >>
       ELSE LET j == CHOOSE x \in guns : \A y \in guns : x <= y
                neighboor_coords == Add(coords, Dirs[j])
            IN << [coords |-> neighboor_coords, direction |-> Dirs[j],
                   action |-> ActionOf(ObjAt(grid, neighboor_coords).kind, coords),
                   origin |-> neighboor_coords] >>

RECURSIVE NeighboorRays(_, _, _)
\* the rays pushed for the Player at coords, over Dirs[k..4]; origin is not a
\* field of Ray: it remembers the tile of the Raygun that fired the ray
NeighboorRays(grid, coords, k) ==
    IF k > 4 THEN << >>
    ELSE LET neighboor_coords == Add(coords, Dirs[k])
             neighboor_obj == ObjAt(grid, neighboor_coords)
         IN (IF IsRaygun(neighboor_obj.kind)
             THEN << [coords |-> neighboor_coords, direction |-> Dirs[k],
                      action |-> ActionOf(neighboor_obj.kind, coords),
                      origin |-> neighboor_coords] >>
             ELSE << >>) \o NeighboorRays(grid, coords, k + 1)

\* the tiles whose Player the loop of player_shoot lets shoot
ShootingPlayers(grid) ==
    { j \in TileIdx : grid[j].obj.kind = Player /\ ~grid[j].obj.processed }

RECURSIVE ShootScan(_, _)
\* the row-major Player loop of player_shoot from tile i on
ShootScan(g, i) ==
    LET j == FirstFrom(ShootingPlayers(g.grid), i) IN
    IF j >= W * H THEN g
    ELSE ShootScan([g EXCEPT !.grid[j].obj.processed = TRUE,
                             !.rays = g.rays \o NeighboorRays(g.grid, Coord(j), 1)],
                   j + 1)

\* Game::player_shoot
PlayerShoot(g) == ShootScan([g EXCEPT !.grid = ClearFlags(g.grid)], 0)

----------------------------------------------------------------------------
(* Ray propagation: the tick of EventHandler::update *)

\* a bug: the two slope mirrors are taken for each other
ReflectSlopesSwapped(obj, direction) ==
    IF obj.kind = Mirror THEN Neg(direction)
    ELSE IF obj.kind = MirrorSlopeDown THEN << -direction[2], -direction[1] >>
    ELSE IF obj.kind = MirrorSlopeUp THEN << direction[2], direction[1] >>
    ELSE direction

\* the reflection of a ray entering a tile that holds obj
Reflect(obj, direction) ==
    IF obj.kind = Mirror THEN Neg(direction)
    ELSE IF obj.kind = MirrorSlopeUp THEN << -direction[2], -direction[1] >>
    ELSE IF obj.kind = MirrorSlopeDown THEN << direction[2], direction[1] >>
    ELSE direction

\* the kinds a ray enters without terminating
LetsRayIn(obj) ==
    ~IsSome(obj) \/ obj.kind \in {WallWithHoles, Mirror, MirrorSlopeUp, MirrorSlopeDown}

\* a bug: the shootee a SwapWith ray takes out is not put on the shooter's tile
EffectDropsShootee(grid, ray, dst_coords) ==
    LET shootee == ObjAt(grid, dst_coords)
        action == ray.action
    IN CASE action.type = "SwapWith" ->
              LET grid1 == SetObj(grid, dst_coords, None)
                  shooter == ObjAt(grid1, action.with_who_coords)
                  grid2 == SetObj(grid1, action.with_who_coords, None)
              IN SetObj(grid2, dst_coords, shooter)
         [] action.type = "Duplicate" ->
              IF ~IsSome(ObjAt(grid, ray.coords))
              THEN SetObj(grid, ray.coords, FromKind(shootee.kind))
              ELSE grid
         [] action.type = "TurnInto" ->
              SetObj(grid, dst_coords, FromKind(action.into_what))
         [] action.type = "TurnIntoTurnInto" ->
              SetObj(grid, dst_coords, FromKind(RaygunTurnInto(shootee.kind)))

\* a bug: the copy a Duplicate ray makes is placed without looking at what the
\* tile holds
EffectOverwrites(grid, ray, dst_coords) ==
    LET shootee == ObjAt(grid, dst_coords)
        action == ray.action
    IN CASE action.type = "SwapWith" ->
              LET grid1 == SetObj(grid, dst_coords, None)
                  shooter == ObjAt(grid1, action.with_who_coords)
                  grid2 == SetObj(grid1, action.with_who_coords, None)
                  grid3 == SetObj(grid2, dst_coords, shooter)
              IN SetObj(grid3, action.with_who_coords, shootee)
         [] action.type = "Duplicate" ->
              SetObj(grid, ray.coords, FromKind(shootee.kind))
         [] action.type = "TurnInto" ->
              SetObj(grid, dst_coords, FromKind(action.into_what))
         [] action.type = "TurnIntoTurnInto" ->
              SetObj(grid, dst_coords, FromKind(RaygunTurnInto(shootee.kind)))

\* a bug: the gun a TurnIntoTurnInto ray makes forgets the shootee's kind
EffectForgetsKind(grid, ray, dst_coords) ==
    LET shootee == ObjAt(grid, dst_coords)
        action == ray.action
    IN CASE action.type = "SwapWith" ->
              LET grid1 == SetObj(grid, dst_coords, None)
                  shooter == ObjAt(grid1, action.with_who_coords)
                  grid2 == SetObj(grid1, action.with_who_coords, None)
                  grid3 == SetObj(grid2, dst_coords, shooter)
              IN SetObj(grid3, action.with_who_coords, shootee)
         [] action.type = "Duplicate" ->
              IF ~IsSome(ObjAt(grid, ray.coords))
              THEN SetObj(grid, ray.coords, FromKind(shootee.kind))
              ELSE grid
         [] action.type = "TurnInto" ->
              SetObj(grid, dst_coords, FromKind(action.into_what))
         [] action.type = "TurnIntoTurnInto" ->
              SetObj(grid, dst_coords, FromKind(RaygunTurnIntoTurnInto))

\* the terminal effect of a ray on the grid: the match on ray.action
Effect(grid, ray, dst_coords) ==
    LET shootee == ObjAt(grid, dst_coords)
        action == ray.action
    IN CASE action.type = "SwapWith" ->
              LET grid1 == SetObj(grid, dst_coords, None)
                  shooter == ObjAt(grid1, action.with_who_coords)
                  grid2 == SetObj(grid1, action.with_who_coords, None)
                  grid3 == SetObj(grid2, dst_coords, shooter)
              IN SetObj(grid3, action.with_who_coords, shootee)
         [] action.type = "Duplicate" ->
              IF ~IsSome(ObjAt(grid, ray.coords))
              THEN SetObj(grid, ray.coords, FromKind(shootee.kind))
              ELSE grid
         [] action.type = "TurnInto" ->
              SetObj(grid, dst_coords, FromKind(action.into_what))
         [] action.type = "TurnIntoTurnInto" ->
              SetObj(grid, dst_coords, FromKind(RaygunTurnInto(shootee.kind)))

\* a bug: a ray entering a free tile is put one tile too far
RayStepSkipsTile(grid, ray) ==
    LET dst_coords == Add(ray.coords, ray.direction)
        dst_obj == ObjAt(grid, dst_coords)
    IN IF ~InGrid(dst_coords)
       THEN [grid |-> grid, ray |-> ray, remove |-> TRUE]
       ELSE IF LetsRayIn(dst_obj)
       THEN [grid |-> grid,
             ray |-> [ray EXCEPT !.coords = IF IsSome(dst_obj) THEN dst_coords
                                            ELSE Add(dst_coords, ray.direction),
                                 !.direction = Reflect(dst_obj, ray.direction)],
             remove |-> FALSE]
       ELSE [grid |-> Effect(grid, ray, dst_coords), ray |-> ray, remove |-> TRUE]

\* a bug: a ray whose next tile is off the board is kept and advanced
RayStepKeepsLeaving(grid, ray) ==
    LET dst_coords == Add(ray.coords, ray.direction)
        dst_obj == ObjAt(grid, dst_coords)
    IN IF ~InGrid(dst_coords)
       THEN [grid |-> grid, ray |-> [ray EXCEPT !.coords = dst_coords],
             remove |-> FALSE]
       ELSE IF LetsRayIn(dst_obj)
       THEN [grid |-> grid,
             ray |-> [ray EXCEPT !.coords = dst_coords,
                                 !.direction = Reflect(dst_obj, ray.direction)],
             remove |-> FALSE]
       ELSE [grid |-> Effect(grid, ray, dst_coords), ray |-> ray, remove |-> TRUE]

\* one ray's turn in the tick loop: [grid, ray, remove]
RayStep(grid, ray) ==
    LET dst_coords == Add(ray.coords, ray.direction)
        dst_obj == ObjAt(grid, dst_coords)
    IN IF ~InGrid(dst_coords)
       THEN [grid |-> grid, ray |-> ray, remove |-> TRUE]
       ELSE IF LetsRayIn(dst_obj)
       THEN [grid |-> grid,
             ray |-> [ray EXCEPT !.coords = dst_coords,
                                 !.direction = Reflect(dst_obj, ray.direction)],
             remove |-> FALSE]
       ELSE [grid |-> Effect(grid, ray, dst_coords), ray |-> ray, remove |-> TRUE]

\* the effect of one ray's turn on the loop's state acc, which is
\* [grid, rays, rays_indices_to_remove]
RayTurn(acc, ray_index) ==
    CHOOSE result \in
        { [grid |-> r.grid,
           rays |-> [acc.rays EXCEPT ![ray_index] = r.ray],
           rays_indices_to_remove |->
               IF r.remove THEN Append(acc.rays_indices_to_remove, ray_index)
               ELSE acc.rays_indices_to_remove] :
          r \in {RayStep(acc.grid, acc.rays[ray_index])} } : TRUE

RECURSIVE RaysLoop(_, _)
\* the for loop over self.rays from index ray_index on
RaysLoop(acc, ray_index) ==
    IF ray_index > Len(acc.rays) THEN acc
    ELSE CHOOSE result \in { RaysLoop(next, ray_index + 1) :
                                 next \in {RayTurn(acc, ray_index)} } : TRUE

\* Vec::remove
RemoveAt(seq, index) ==
    SubSeq(seq, 1, index - 1) \o SubSeq(seq, index + 1, Len(seq))

RECURSIVE RemoveAll(_, _, _)
\* the removal loop: the (sorted) indices, taken from the last to the first
RemoveAll(rays, indices, n) ==
    IF n = 0 THEN rays ELSE RemoveAll(RemoveAt(rays, indices[n]), indices, n - 1)

\* a bug: the saplings are handled only after a tick that removed a ray
RaysTickGrowsOnHit(g) ==
    CHOOSE result \in
        { [g EXCEPT !.rays = RemoveAll(acc.rays, acc.rays_indices_to_remove,
                                       Len(acc.rays_indices_to_remove)),
                    !.grid = IF acc.rays_indices_to_remove = << >>
                             THEN acc.grid
                             ELSE HandleSapling(acc.grid, TRUE)] :
          acc \in {RaysLoop([grid |-> g.grid, rays |-> g.rays,
                             rays_indices_to_remove |-> << >>], 1)} } : TRUE

\* the body of update once progress >= 1.0
RaysTick(g) ==
    CHOOSE result \in
        { [g EXCEPT !.rays = RemoveAll(acc.rays, acc.rays_indices_to_remove,
                                       Len(acc.rays_indices_to_remove)),
                    !.grid = HandleSapling(acc.grid, TRUE)] :
          acc \in {RaysLoop([grid |-> g.grid, rays |-> g.rays,
                             rays_indices_to_remove |-> << >>], 1)} } : TRUE

\* a bug: the reset forgets the rays in flight
ResetLevelKeepsRays(g) ==
    [g EXCEPT !.grid = EnterGrid(g.level),
              !.cheese_count_got_here = 0,
              !.step_count = g.step_count_at_level_start,
              !.reset_count = g.reset_count + 1]

\* the R key of key_down_event
ResetLevel(g) ==
    [g EXCEPT !.rays = << >>,
              !.grid = EnterGrid(g.level),
              !.cheese_count_got_here = 0,
              !.step_count = g.step_count_at_level_start,
              !.reset_count = g.reset_count + 1]

----------------------------------------------------------------------------
(* Levels: Level::test is built by the program; the other levels are level  *)
(* files as Level::load_from_text reads them (grid rows, obj, ground, entry *)
(* and exit lines).                                                         *)

RECURSIVE PutObjs(_, _, _)
\* grid.get_mut(coords).unwrap().obj = Some(Obj::from_kind(kind)) for the
\* first n entries <<coords, kind>> of objs
PutObjs(grid, objs, n) ==
    IF n = 0 THEN grid
    ELSE SetObj(PutObjs(grid, objs, n - 1), objs[n][1], FromKind(objs[n][2]))

RECURSIVE PutGrounds(_, _, _)
\* grid.get_mut(coords).unwrap().ground = ground
PutGrounds(grid, grounds, n) ==
    IF n = 0 THEN grid
    ELSE [PutGrounds(grid, grounds, n - 1) EXCEPT ![Index(grounds[n][1])].ground = grounds[n][2]]

RECURSIVE PutExits(_, _, _)
\* grid.get_mut(coords).unwrap().exit = Some(Exit { direction, dst_level_id })
PutExits(grid, exits, n) ==
    IF n = 0 THEN grid
    ELSE [PutExits(grid, exits, n - 1) EXCEPT ![Index(exits[n][1])].exit = exits[n][2]]

MakeGrid(objs, grounds, exits) ==
    PutExits(PutGrounds(PutObjs(NewGrid, objs, Len(objs)), grounds, Len(grounds)),
             exits, Len(exits))

\* Level::test
LevelTest ==
    MakeLevel("test",
        MakeGrid(
            << << <<5, 4>>, Rock >>, << <<5, 5>>, Rock >>,
               << <<5, 6>>, Rope >>, << <<5, 7>>, Rope >>,
               << <<2, 6>>, Soap >>,
               << <<3, 8>>, RaygunSwapWithShooter >>,
               << <<4, 9>>, RaygunDuplicateShootee >>,
               << <<2, 9>>, RaygunTurnInto(Rock) >>,
               << <<10, 2>>, RaygunTurnIntoTurnInto >>,
               << <<2, 2>>, Wall >>,
               << <<8, 8>>, Mirror >>,
               << <<8, 9>>, MirrorSlopeDown >>,
               << <<4, 11>>, MirrorSlopeDown >>,
               << <<8, 11>>, MirrorSlopeUp >>,
               << <<10, 10>>, Tree >>,
               << <<9, 10>>, Axe >>,
               << <<4, 2>>, WallWithHoles >>,
               << <<10, 4>>, Cheese >>,
               << <<10, 6>>, Bunny >>,
               << <<6, 1>>, Key >>,
               << <<8, 1>>, Door >> >>,
            << << <<4, 4>>, Sapling(FALSE) >>,
               << <<7, 4>>, Ice >>, << <<8, 4>>, Ice >>,
               << <<7, 5>>, Ice >>, << <<8, 5>>, Ice >> >>,
            << << <<11, 5>>, Exit(<<1, 0>>, "test01") >> >>),
        <<3, 5>>, <<0, 1>>)

\* the level the exit of Level::test leads to: the entry tile (1, 6) holds a
\* Rock in the grid rows and has Sapling ground, a Bunny stands in its row,
\* and the exit on (0, 6) leads back
LevelTest01 ==
    MakeLevel("test01",
        MakeGrid(
            << << <<1, 6>>, Rock >>, << <<4, 6>>, Bunny >> >>,
            << << <<1, 6>>, Sapling(FALSE) >> >>,
            << << <<0, 6>>, Exit(<<-1, 0>>, "test") >> >>),
        <<1, 6>>, <<1, 0>>)

\* a level whose exit tile, one step right of the entry, holds a Cheese
LevelExit ==
    MakeLevel("exit",
        MakeGrid(
            << << <<10, 4>>, Wall >>, << <<10, 6>>, Wall >>, << <<11, 5>>, Cheese >>,
               << <<11, 4>>, Wall >>, << <<11, 6>>, Wall >>, << <<8, 5>>, Wall >> >>,
            << >>,
            << << <<11, 5>>, Exit(<<1, 0>>, "test01") >> >>),
        <<10, 5>>, <<1, 0>>)

\* a level with a second Player of its own, standing on the exit tile
LevelTwins ==
    MakeLevel("twins",
        MakeGrid(
            << << <<11, 5>>, Player >>, << <<10, 4>>, Wall >>, << <<10, 6>>, Wall >>,
               << <<9, 5>>, Wall >>, << <<11, 4>>, Wall >>, << <<11, 6>>, Wall >> >>,
            << >>,
            << << <<11, 5>>, Exit(<<1, 0>>, "test01") >> >>),
        <<10, 5>>, <<1, 0>>)

\* two rayguns next to the entry; the ray of the lower one is led by two slope
\* mirrors onto the left one, whose own ray runs between it and a Mirror; the
\* Wall above the entry stands on Sapling ground
LevelMirrors ==
    MakeLevel("mirrors",
        MakeGrid(
            << << <<3, 5>>, RaygunDuplicateShootee >>,
               << <<0, 5>>, Mirror >>,
               << <<4, 6>>, RaygunTurnInto(Mirror) >>,
               << <<4, 7>>, MirrorSlopeUp >>,
               << <<3, 7>>, MirrorSlopeDown >>,
               << <<5, 5>>, RaygunSwapWithShooter >>,
               << <<7, 5>>, WallWithHoles >>,
               << <<9, 5>>, Rock >>,
               << <<4, 4>>, Wall >> >>,
            << << <<4, 4>>, Sapling(FALSE) >> >>,
            << >>),
        <<4, 5>>, <<1, 0>>)

\* straight lines of Rocks around the entry: two Rocks against the upper edge,
\* three against a Wall, two before a run of Ice, two before free Grass
LevelChain ==
    MakeLevel("chain",
        MakeGrid(
            << << <<5, 1>>, Rock >>, << <<5, 0>>, Rock >>,
               << <<4, 2>>, Rock >>, << <<3, 2>>, Rock >>, << <<2, 2>>, Rock >>,
               << <<1, 2>>, Wall >>,
               << <<6, 2>>, Rock >>, << <<7, 2>>, Rock >>,
               << <<5, 3>>, Rock >>, << <<5, 4>>, Rock >> >>,
            << << <<8, 2>>, Ice >>, << <<9, 2>>, Ice >> >>,
            << >>),
        <<5, 2>>, <<0, 1>>)

\* around the entry: a Soap to the right, two Ropes and a Rock in a line to
\* the left, an Axe before a Tree above, an Axe before a Wall below; one row
\* up, a Rock before a Soap
LevelTools ==
    MakeLevel("tools",
        MakeGrid(
            << << <<6, 5>>, Soap >>,
               << <<4, 5>>, Rope >>, << <<3, 5>>, Rope >>, << <<2, 5>>, Rock >>,
               << <<5, 4>>, Axe >>, << <<5, 3>>, Tree >>,
               << <<5, 6>>, Axe >>, << <<5, 7>>, Wall >>,
               << <<6, 4>>, Rock >>, << <<7, 4>>, Soap >> >>,
            << >>,
            << >>),
        <<5, 5>>, <<1, 0>>)

\* the entry tile and the tile above it are Ice, a Rope lies below the entry, a
\* Cheese to its right; a second Player of the level has a Cheese to its right
LevelPantry ==
    MakeLevel("pantry",
        MakeGrid(
            << << <<5, 6>>, Rope >>, << <<6, 5>>, Cheese >>,
               << <<2, 7>>, Player >>, << <<3, 7>>, Cheese >> >>,
            << << <<5, 5>>, Ice >>, << <<5, 4>>, Ice >> >>,
            << >>),
        <<5, 5>>, <<1, 0>>)

\* four rayguns around the entry, each line closed by a Wall: the ray of the
\* right one comes back from a Mirror onto the gun, the lower one aims at a
\* Rock two tiles away, the left one at a Wall, the upper one at a Rock
LevelGuns ==
    MakeLevel("guns",
        MakeGrid(
            << << <<6, 5>>, RaygunTurnIntoTurnInto >>, << <<7, 5>>, Mirror >>,
               << <<8, 5>>, Wall >>,
               << <<5, 6>>, RaygunDuplicateShootee >>, << <<5, 8>>, Rock >>,
               << <<5, 9>>, Wall >>,
               << <<4, 5>>, RaygunTurnInto(Rock) >>, << <<3, 5>>, Wall >>,
               << <<5, 4>>, RaygunTurnIntoTurnInto >>, << <<5, 3>>, Rock >>,
               << <<5, 2>>, Wall >> >>,
            << >>,
            << >>),
        <<5, 5>>, <<1, 0>>)

\* a walled-in entry next to the level's own Player, which stands on the exit
\* tile; in Level::test, where the exit leads, the entry's coordinates hold a
\* Tree and the exit tile's coordinates are free
LevelGate ==
    MakeLevel("gate",
        MakeGrid(
            << << <<11, 10>>, Player >>, << <<10, 9>>, Wall >>,
               << <<10, 11>>, Wall >>, << <<9, 10>>, Wall >>,
               << <<11, 9>>, Wall >>, << <<11, 11>>, Wall >> >>,
            << >>,
            << << <<11, 10>>, Exit(<<1, 0>>, "test") >> >>),
        <<10, 10>>, <<1, 0>>)

\* a second Player right of the entry and a Bunny two tiles further in that
\* row; a Key before a Door to the left of the entry, Sapling ground above it
\* and a Rope below it; four rows down a Player, a free tile, a Rope and a
\* Player
LevelGarden ==
    MakeLevel("garden",
        MakeGrid(
            << << <<6, 5>>, Player >>, << <<8, 5>>, Bunny >>,
               << <<4, 5>>, Key >>, << <<3, 5>>, Door >>,
               << <<5, 6>>, Rope >>,
               << <<3, 9>>, Player >>, << <<5, 9>>, Rope >>,
               << <<6, 9>>, Player >> >>,
            << << <<5, 4>>, Sapling(FALSE) >> >>,
            << >>),
        <<5, 5>>, <<1, 0>>)

\* Game::all_levels after Game::new has read the levels
Catalogue ==
    [id \in {"test", "test01", "exit", "twins", "mirrors", "chain",
             "tools", "pantry", "guns", "gate", "garden"} |->
        CASE id = "test" -> LevelTest
          [] id = "test01" -> LevelTest01
          [] id = "exit" -> LevelExit
          [] id = "twins" -> LevelTwins
          [] id = "mirrors" -> LevelMirrors
          [] id = "chain" -> LevelChain
          [] id = "tools" -> LevelTools
          [] id = "pantry" -> LevelPantry
          [] id = "guns" -> LevelGuns
          [] id = "gate" -> LevelGate
          [] id = "garden" -> LevelGarden]

----------------------------------------------------------------------------
(* The state machine *)

VARIABLES
    all_levels,                 \* Game::all_levels
    level,                      \* Game::level
    grid,                       \* Game::grid
    rays,                       \* Game::rays
    cheese_count,               \* Game::cheese_count
    cheese_count_got_here,      \* Game::cheese_count_got_here
    step_count,                 \* Game::step_count
    step_count_at_level_start,  \* Game::step_count_at_level_start
    reset_count,                \* Game::reset_count
    panicked,                   \* a handler has hit a fatal error
    last                        \* the last event handled (see Event)

vars == << all_levels, level, grid, rays, cheese_count,
           cheese_count_got_here, step_count, step_count_at_level_start,
           reset_count, panicked, last >>

\* the mutable fields of Game as a record
Game ==
    [level |-> level, grid |-> grid, rays |-> rays,
     cheese_count |-> cheese_count,
     cheese_count_got_here |-> cheese_count_got_here,
     step_count |-> step_count,
     step_count_at_level_start |-> step_count_at_level_start,
     reset_count |-> reset_count,
     panicked |-> FALSE, switches |-> 0]

\* the handler leaves the Game as g
Becomes(g) ==
    /\ level' = g.level
    /\ grid' = g.grid
    /\ rays' = g.rays
    /\ cheese_count' = g.cheese_count
    /\ cheese_count_got_here' = g.cheese_count_got_here
    /\ step_count' = g.step_count
    /\ step_count_at_level_start' = g.step_count_at_level_start
    /\ reset_count' = g.reset_count
    /\ panicked' = g.panicked

\* op is the handler, direction the arrow of an executed move, can_play the
\* value key_down_event computed on entry, switches the go_to_level calls made
Event(op, direction, can_play, switches) ==
    [op |-> op, direction |-> direction, can_play |-> can_play, switches |-> switches]

\* Game::new: the Game literal, then go_to_level(level_id)
NewGame(levels, level_id) ==
    GoToLevel([level |-> levels[level_id], grid |-> levels[level_id].grid,
               rays |-> << >>, cheese_count |-> 0, cheese_count_got_here |-> 0,
               step_count |-> 0, step_count_at_level_start |-> 0,
               reset_count |-> 0, panicked |-> FALSE, switches |-> 0],
              levels, level_id)

\* the program started on any level of the catalogue (--level)
Init ==
    \E level_id \in DOMAIN Catalogue :
        LET g == NewGame(Catalogue, level_id) IN
        /\ all_levels = Catalogue
        /\ level = g.level
        /\ grid = g.grid
        /\ rays = g.rays
        /\ cheese_count = g.cheese_count
        /\ cheese_count_got_here = g.cheese_count_got_here
        /\ step_count = g.step_count
        /\ step_count_at_level_start = g.step_count_at_level_start
        /\ reset_count = g.reset_count
        /\ panicked = g.panicked
        /\ last = Event("new", <<0, 0>>, TRUE, g.switches)

\* let can_play = self.rays.is_empty()
CanPlay == rays = << >>

\* the deepest Raygun nesting among the objects of the grid
GridNesting == 
    LET depths == { Nesting(grid[i].obj.kind) : i \in TileIdx }
    IN CHOOSE n \in depths : \A m \in depths : m <= n

\* a bug: the arrow keys are not gated on can_play
KeyArrowUngated(direction) ==
    /\ ~panicked
    /\ step_count < MaxSteps
    /\ LET g == PlayerMove(Game, all_levels, direction) IN
       /\ Becomes(g)
       /\ last' = Event("move", direction, CanPlay, g.switches)
    /\ UNCHANGED all_levels

\* key_down_event, an arrow key
KeyArrow(direction) ==
    /\ ~panicked
    /\ IF CanPlay
       THEN /\ step_count < MaxSteps
            /\ LET g == PlayerMove(Game, all_levels, direction) IN
               /\ Becomes(g)
               /\ last' = Event("move", direction, TRUE, g.switches)
       ELSE /\ UNCHANGED << level, grid, rays, cheese_count, cheese_count_got_here,
                           step_count, step_count_at_level_start, reset_count,
                           panicked >>
            /\ last' = Event("move", <<0, 0>>, FALSE, 0)
    /\ UNCHANGED all_levels

\* key_down_event, Space or Return
KeySpace ==
    /\ ~panicked
    /\ IF CanPlay
       THEN /\ GridNesting < MaxNest
            /\ Becomes(PlayerShoot(Game))
            /\ last' = Event("shoot", <<0, 0>>, TRUE, 0)
       ELSE /\ UNCHANGED << level, grid, rays, cheese_count, cheese_count_got_here,
                           step_count, step_count_at_level_start, reset_count,
                           panicked >>
            /\ last' = Event("shoot", <<0, 0>>, FALSE, 0)
    /\ UNCHANGED all_levels

\* key_down_event, R
KeyR ==
    /\ ~panicked
    /\ reset_count < MaxResets
    /\ Becomes(ResetLevel(Game))
    /\ last' = Event("reset", <<0, 0>>, CanPlay, 0)
    /\ UNCHANGED all_levels

\* EventHandler::update while the rays' animation has not run out
\* (progress < 1.0): only the animation clock (not modelled) is touched
UpdateWait ==
    /\ ~panicked
    /\ rays # << >>
    /\ UNCHANGED vars

\* EventHandler::update once the rays' animation has run out (progress >= 1.0)
UpdateTick ==
    /\ ~panicked
    /\ rays # << >>
    /\ \E g \in {RaysTick(Game)} : Becomes(g)
    /\ last' = Event("tick", <<0, 0>>, FALSE, 0)
    /\ UNCHANGED all_levels

Next ==
    \/ \E direction \in DirSet : KeyArrow(direction)
    \/ KeySpace
    \/ KeyR
    \/ UpdateWait
    \/ UpdateTick

Spec == Init /\ [][Next]_vars

\* the external clock keeps ticking: an update with progress >= 1.0 comes
\* as long as rays are in flight
FairSpec == Spec /\ WF_vars(UpdateTick)

----------------------------------------------------------------------------
(* Properties *)

\* the Game before a move command resolves anything: the flags are cleared
Cleared == [Game EXCEPT !.grid = ClearFlags(grid)]

\* a and b are the same Game, field by field
SameGame(a, b) ==
    /\ \A t \in TileIdx : a.grid[t] = b.grid[t]
    /\ a.level = b.level
    /\ a.rays = b.rays
    /\ a.cheese_count = b.cheese_count
    /\ a.cheese_count_got_here = b.cheese_count_got_here
    /\ a.step_count = b.step_count
    /\ a.step_count_at_level_start = b.step_count_at_level_start
    /\ a.reset_count = b.reset_count
    /\ a.panicked = b.panicked
    /\ a.switches = b.switches

\* k steps from coords in direction
Ahead(coords, direction, k) ==
    << coords[1] + k * direction[1], coords[2] + k * direction[2] >>

KindAt(g, coords) == ObjAt(g, coords).kind

Counters ==
    << cheese_count, cheese_count_got_here, step_count, step_count_at_level_start,
       reset_count >>

\* C1: while a ray is in flight a move or shoot command changes nothing (grid,
\* rays, step counter, cheese counters), and a move or shoot command is
\* executed only from a state without rays
C1_InputGating ==
    [][last'.op \in {"move", "shoot"} =>
          IF rays # << >>
          THEN ~last'.can_play /\ UNCHANGED << grid, rays, level, Counters, panicked >>
          ELSE last'.can_play]_vars

\* a move command was rejected and the rays are still in flight
C1_Witness == last.op = "move" /\ ~last.can_play /\ rays # << >>

\* where the Players are
PlayerCoords == { Coord(i) : i \in { j \in TileIdx : grid[j].obj.kind = Player } }

\* coords holds a Player that does not leave through an Exit in direction and
\* has exactly n Rocks in a straight line right ahead of it
ChainCase(coords, direction, n) ==
    /\ KindAt(grid, coords) = Player
    /\ ~ExitsLevel(grid[Index(coords)], direction)
    /\ \A k \in 1..n : KindAt(grid, Ahead(coords, direction, k)) = Rock

\* the tile beyond the last Rock exists and is empty
BeyondFree(coords, direction, n) ==
    /\ InGrid(Ahead(coords, direction, n + 1))
    /\ ~IsSome(ObjAt(grid, Ahead(coords, direction, n + 1)))

\* the tile beyond the last Rock holds a Wall or is off the board
BeyondBlocked(coords, direction, n) ==
    \/ ~InGrid(Ahead(coords, direction, n + 1))
    \/ KindAt(grid, Ahead(coords, direction, n + 1)) = Wall

\* the grid after the resolver has moved the object on coords
Resolved(coords, direction) ==
    ObjMove(Cleared, all_levels, coords, direction, FALSE).grid

\* no object has changed place
NothingMoved(after) == \A i \in TileIdx : after[i].obj.kind = grid[i].obj.kind

\* the Player and the first n - 1 Rocks are one tile further, the tile the
\* Player left holds neither
HeadShifted(after, coords, direction, n) ==
    /\ KindAt(after, coords) \notin {Player, Rock}
    /\ KindAt(after, Ahead(coords, direction, 1)) = Player
    /\ \A k \in 2..n : KindAt(after, Ahead(coords, direction, k)) = Rock

\* the last Rock rests j tiles beyond the tile after the chain: the j tiles it
\* passed are empty Ice, and it went on as long as it stood on Ice with a free
\* tile ahead
LastSlid(after, coords, direction, n, j) ==
    LET beyond == Ahead(coords, direction, n + 1)
        rest == Ahead(beyond, direction, j)
    IN /\ InGrid(rest)
       /\ KindAt(after, rest) = Rock
       /\ \A i \in 0..(j - 1) :
            /\ grid[Index(Ahead(beyond, direction, i))].ground = Ice
            /\ ~IsSome(ObjAt(after, Ahead(beyond, direction, i)))
       /\ \/ grid[Index(rest)].ground # Ice
          \/ ~InGrid(Ahead(rest, direction, 1))
          \/ IsSome(ObjAt(grid, Ahead(rest, direction, 1)))

\* C2 as claimed: a Player moving into a straight line of n Rocks shifts itself
\* and every Rock by exactly one tile when the tile beyond is empty, and moves
\* nothing when it holds a Wall or is off the board
C2_ChainShiftsByOne ==
    (CanPlay /\ ~panicked) =>
    \A coords \in PlayerCoords, direction \in DirSet, n \in 1..W :
        ChainCase(coords, direction, n) =>
            LET after == Resolved(coords, direction) IN
            /\ BeyondFree(coords, direction, n) =>
                  /\ HeadShifted(after, coords, direction, n)
                  /\ KindAt(after, Ahead(coords, direction, n + 1)) = Rock
            /\ BeyondBlocked(coords, direction, n) => NothingMoved(after)

\* C2 as amended: all or nothing. With the tile beyond empty, the Player and
\* the first n - 1 Rocks end exactly one tile further and the last Rock at
\* least one tile further: it slides on over empty Ice; with a Wall or the
\* board's edge beyond, nothing moves
C2_ChainAllOrNothing ==
    \A coords \in PlayerCoords, direction \in DirSet, n \in 1..W :
        ChainCase(coords, direction, n) =>
            LET after == Resolved(coords, direction) IN
            /\ BeyondFree(coords, direction, n) =>
                  /\ HeadShifted(after, coords, direction, n)
                  /\ \E j \in 0..W : LastSlid(after, coords, direction, n, j)
            /\ BeyondBlocked(coords, direction, n) => NothingMoved(after)

\* a move command has shifted a Player and two Rocks ahead of it
C2_Witness ==
    /\ last.op = "move" /\ last.can_play
    /\ \E i \in TileIdx :
         /\ grid[i].obj.kind = Player /\ grid[i].obj.moved
         /\ \A k \in 1..2 :
              LET obj == ObjAt(grid, Ahead(Coord(i), last.direction, k))
              IN obj.kind = Rock /\ obj.moved

\* the position among the kept rays of the ray that was the i-th
KeptIndex(removed, i) == i - Cardinality({r \in removed : r < i})

\* C3: in a tick every ray either is removed or advances by exactly one tile,
\* its coordinates becoming its coordinates plus its direction; a ray that
\* enters an empty tile or a WallWithHoles keeps its direction
C3_RayStepping ==
    [][last'.op = "tick" =>
         \E removed \in SUBSET (1..Len(rays)) :
            /\ Len(rays') = Len(rays) - Cardinality(removed)
            /\ \A i \in (1..Len(rays)) \ removed :
                 LET old == rays[i]
                     new == rays'[KeptIndex(removed, i)]
                     dst_obj == ObjAt(grid, Add(old.coords, old.direction))
                 IN /\ new.coords = Add(old.coords, old.direction)
                    /\ new.action = old.action
                    /\ (~IsSome(dst_obj) \/ dst_obj.kind = WallWithHoles)
                           => new.direction = old.direction]_vars

\* a tick has put a ray on a WallWithHoles tile
C3_Witness ==
    /\ last.op = "tick"
    /\ \E i \in 1..Len(rays) : KindAt(grid, rays[i].coords) = WallWithHoles

\* C4: once rays are in flight and ticks keep coming, the rays are eventually
\* all gone
C4_RaysEventuallyGone == (rays # << >>) ~> (rays = << >>)

\* C5: the level catalogue and the current level's template never change, and
\* a level entered at start or reset has the template's layout plus the Player
C5_TemplatesImmutable ==
    /\ all_levels = Catalogue
    /\ level = all_levels[level.id]
    /\ last.op \in {"new", "reset"} => grid = EnterGrid(all_levels[level.id])

\* a reset after a level switch that banked a Cheese
C5_Witness == last.op = "reset" /\ cheese_count > 0

C7_SwitchLevel ==
    \A level_id \in DOMAIN all_levels :
        LET g == GoToLevel(Game, all_levels, level_id)
            lvl == all_levels[level_id]
        IN /\ g.cheese_count = cheese_count + cheese_count_got_here
           /\ g.cheese_count_got_here = 0
           /\ g.step_count_at_level_start = step_count
           /\ g.step_count = step_count
           /\ g.reset_count = reset_count
           /\ g.rays = << >>
           /\ g.level = lvl
           /\ ~g.panicked
           /\ \A i \in TileIdx :
                IF i = Index(lvl.entry_coords)
                THEN /\ g.grid[i].obj.kind = Player
                     /\ ~g.grid[i].obj.processed /\ ~g.grid[i].obj.moved
                     /\ g.grid[i].ground = lvl.grid[i].ground
                     /\ g.grid[i].exit = lvl.grid[i].exit
                ELSE g.grid[i] = lvl.grid[i]

\* a move command has switched the level with a Cheese pending, and the
\* template of the level entered has an object on its entry tile
C7_Witness ==
    /\ last.op = "move" /\ last.switches = 1
    /\ cheese_count = 1
    /\ IsSome(level.grid[Index(level.entry_coords)].obj)

\* C8: when a move command has switched the level, the grid it leaves is the
\* destination level's template with a Player on the entry tile
C8_SwitchIsTerminal ==
    (last.op = "move" /\ last.switches >= 1 /\ ~panicked)
        => grid = EnterGrid(all_levels[level.id])

\* C9: an executed move command adds exactly 1 to the step counter, shoot
\* commands and ticks leave it alone, and only a reset lowers it, to the
\* checkpoint
C9_StepCounting ==
    [][/\ (last'.op = "move" /\ last'.can_play) => step_count' = step_count + 1
       /\ last'.op \in {"shoot", "tick"} => step_count' = step_count
       /\ step_count' < step_count =>
             last'.op = "reset" /\ step_count' = step_count_at_level_start]_vars

\* C10: no handler hits a fatal error
C10_NoFatalFailure == ~panicked

----------------------------------------------------------------------------
(* Properties of the resolver's interactions *)

\* the tiles that hold an object obj_move moves: one that can move and is no
\* Player leaving through an Exit in direction
Movers(direction) ==
    { Coord(i) : i \in { j \in TileIdx :
          /\ IsSome(grid[j].obj)
          /\ CanMove(grid[j].obj)
          /\ ~ExitsLevel(grid[j], direction) } }

\* the destination obj_move computes for the object on coords
DstOf(coords, direction) == SlideDst(grid, Add(coords, direction), direction)

\* obj_move of the object on coords after its two looks at the destination
Looked(coords, direction) ==
    SoapAgain(Contact(Cleared, all_levels, coords, DstOf(coords, direction), direction),
              DstOf(coords, direction))

\* obj_move of the object on coords after its own move, before any Rope is
\* pulled behind it
Settled(coords, direction) ==
    Settle(Looked(coords, direction), coords, DstOf(coords, direction))

SoapCount(g) == Cardinality({ i \in TileIdx : g[i].obj.kind = Soap })

\* C11 as claimed, for a Player that moves into a Soap next to it: when the
\* move command is over the Soap is on the tile the Player has left
C11_SoapEndsBehindMover ==
    \A direction \in DirSet :
        \A coords \in Movers(direction) \cap PlayerCoords :
            KindAt(grid, Add(coords, direction)) = Soap =>
                LET g == ObjMove(Cleared, all_levels, coords, direction, FALSE)
                IN (g.switches = 0 /\ ~g.panicked) => KindAt(g.grid, coords) = Soap

\* the Soap an object takes out of its destination is, once that object has
\* moved, on the tile it has left, with the object on the Soap's tile
SoapBehindMover ==
    \A direction \in DirSet :
        \A coords \in Movers(direction) :
            LET c == Looked(coords, direction)
                s == Settled(coords, direction)
            IN (IsSome(c.soap_getting_back) /\ c.g.switches = 0 /\ ~c.g.panicked) =>
                  /\ s.shall_move /\ ~s.g.panicked
                  /\ KindAt(s.g.grid, coords) = Soap
                  /\ KindAt(s.g.grid, DstOf(coords, direction)) = KindAt(grid, coords)

\* C11 as amended: the Soap an object takes out of its destination (met there
\* at once, or put there by the nested push) is on the tile that object has
\* left at the moment its move is done, and a move command that switches no
\* level keeps the number of Soaps
C11_SoapSpringsBack ==
    /\ []SoapBehindMover
    /\ [][(last'.op = "move" /\ last'.switches = 0 /\ ~panicked')
              => SoapCount(grid') = SoapCount(grid)]_vars

\* a move command has put a Soap behind an object that moved
C11_Witness ==
    /\ last.op = "move" /\ last.can_play
    /\ \E i \in TileIdx :
         /\ grid[i].obj.kind = Soap /\ grid[i].obj.moved
         /\ ObjAt(grid, Add(Coord(i), last.direction)).moved

\* C12 as claimed: an object that moves toward a Soap next to it ends one tile
\* short of the tile the Soap stood on, which leaves it where it was
C12_PusherStopsShort ==
    \A direction \in DirSet :
        \A coords \in Movers(direction) :
            KindAt(grid, Add(coords, direction)) = Soap =>
                LET s == Settled(coords, direction)
                IN /\ KindAt(s.g.grid, coords) = KindAt(grid, coords)
                   /\ KindAt(s.g.grid, Add(coords, direction)) # KindAt(grid, coords)

\* C12 as amended: an object that moves toward a Soap next to it ends on the
\* tile the Soap stood on, which is the destination of its move, and the Soap
\* on the tile the object has left: they swap places
C12_PusherTakesSoapTile ==
    \A direction \in DirSet :
        \A coords \in Movers(direction) :
            KindAt(grid, Add(coords, direction)) = Soap =>
                LET s == Settled(coords, direction)
                    there == ObjAt(s.g.grid, Add(coords, direction))
                IN /\ DstOf(coords, direction) = Add(coords, direction)
                   /\ s.shall_move
                   /\ there.kind = KindAt(grid, coords) /\ there.moved
                   /\ KindAt(s.g.grid, coords) = Soap

\* a move command has moved a Player onto the tile of a Soap, which is now
\* right behind it
C12_Witness ==
    /\ last.op = "move" /\ last.can_play
    /\ \E coords \in PlayerCoords :
         /\ ObjAt(grid, coords).moved
         /\ KindAt(grid, Sub(coords, last.direction)) = Soap
         /\ ObjAt(grid, Sub(coords, last.direction)).moved

\* the Player on coords has a Rope right behind it and steps away in direction
StepsAwayFromRope(coords, direction) ==
    /\ KindAt(grid, Sub(coords, direction)) = Rope
    /\ Settled(coords, direction).shall_move

\* the move command's resolution of the Player on coords, when it neither
\* switches the level nor fails
Pulled(coords, direction) == ObjMove(Cleared, all_levels, coords, direction, FALSE)

\* the object that stood right behind the Rope is one a moving Rope drags
DraggedBehind(coords, direction) ==
    LET behind == Ahead(coords, direction, -2) IN
    /\ InGrid(behind)
    /\ behind \in Movers(direction)

\* an object of this kind that has moved is on the tile `to`, or further on
\* in direction past tiles that were Ice and are empty
CameTo(after, kind, to, direction) ==
    \E j \in 0..W :
        LET rest == Ahead(to, direction, j) IN
        /\ InGrid(rest)
        /\ ObjAt(after, rest).kind = kind /\ ObjAt(after, rest).moved
        /\ \A i \in 0..(j - 1) :
             /\ grid[Index(Ahead(to, direction, i))].ground = Ice
             /\ ~IsSome(ObjAt(after, Ahead(to, direction, i)))

\* C13 as claimed: the Rope behind a Player that steps away ends on the tile
\* the Player has left, and what stood behind the Rope and can move (a second
\* Rope, or anything else) ends on the tile the Rope has left
C13_RopeFollowsOneStep ==
    \A direction \in DirSet :
        \A coords \in Movers(direction) \cap PlayerCoords :
            StepsAwayFromRope(coords, direction) =>
                LET g == Pulled(coords, direction) IN
                (g.switches = 0 /\ ~g.panicked) =>
                    /\ KindAt(g.grid, coords) = Rope
                    /\ DraggedBehind(coords, direction) =>
                          KindAt(g.grid, Sub(coords, direction))
                              = KindAt(grid, Ahead(coords, direction, -2))

\* C13 as amended: the Rope ends on the tile the Player has left, or, when
\* that tile is Ice, possibly further on over empty Ice; what stood behind the
\* Rope and can move follows in the same way onto the tile the Rope has left
C13_RopeFollows ==
    \A direction \in DirSet :
        \A coords \in Movers(direction) \cap PlayerCoords :
            StepsAwayFromRope(coords, direction) =>
                LET g == Pulled(coords, direction) IN
                (g.switches = 0 /\ ~g.panicked) =>
                    /\ CameTo(g.grid, Rope, coords, direction)
                    /\ DraggedBehind(coords, direction) =>
                          CameTo(g.grid, KindAt(grid, Ahead(coords, direction, -2)),
                                 Sub(coords, direction), direction)

\* a move command has moved a Player and the two Ropes that now lie in a line
\* right behind it
C13_Witness ==
    /\ last.op = "move" /\ last.can_play
    /\ \E coords \in PlayerCoords :
         /\ ObjAt(grid, coords).moved
         /\ \A k \in 1..2 :
              LET obj == ObjAt(grid, Ahead(coords, last.direction, -k))
              IN obj.kind = Rope /\ obj.moved

TreeCount(g) == Cardinality({ i \in TileIdx : g[i].obj.kind = Tree })

\* C14: an Axe moved into a Tree next to it removes the Tree and ends on the
\* Tree's tile; the Player that pushed it follows one step; an Axe pushed
\* into a Wall stays where it is, and so do the Wall and the Player
C14_AxeCutsTree ==
    \A direction \in DirSet :
        /\ \A coords \in Movers(direction) :
              (/\ KindAt(grid, coords) = Axe
               /\ KindAt(grid, Add(coords, direction)) = Tree) =>
                  LET s == Settled(coords, direction) IN
                  /\ s.shall_move
                  /\ KindAt(s.g.grid, Add(coords, direction)) = Axe
                  /\ KindAt(s.g.grid, coords) # Axe
                  /\ TreeCount(s.g.grid) = TreeCount(grid) - 1
        /\ \A coords \in Movers(direction) \cap PlayerCoords :
              KindAt(grid, Add(coords, direction)) = Axe =>
                  LET g == Pulled(coords, direction) IN
                  /\ KindAt(grid, Ahead(coords, direction, 2)) = Tree =>
                        /\ g.switches = 0 /\ ~g.panicked
                        /\ KindAt(g.grid, Ahead(coords, direction, 2)) = Axe
                        /\ KindAt(g.grid, Add(coords, direction)) = Player
                        /\ ObjAt(g.grid, Add(coords, direction)).moved
                        /\ TreeCount(g.grid) = TreeCount(grid) - 1
                  /\ KindAt(grid, Ahead(coords, direction, 2)) = Wall =>
                        /\ g.switches = 0 /\ ~g.panicked
                        /\ NothingMoved(g.grid)

\* a move command has moved a Player and, ahead of it, an Axe onto a tile
\* where the level has a Tree
C14_Witness ==
    /\ last.op = "move" /\ last.can_play /\ last.switches = 0
    /\ \E coords \in PlayerCoords :
         LET ahead == Add(coords, last.direction) IN
         /\ ObjAt(grid, coords).moved
         /\ KindAt(grid, ahead) = Axe /\ ObjAt(grid, ahead).moved
         /\ KindAt(level.grid, ahead) = Tree

CheeseCount(g) == Cardinality({ i \in TileIdx : g[i].obj.kind = Cheese })

\* a Player that moves onto a Cheese next to it removes that Cheese, takes its
\* tile and adds exactly 1 to the pending cheese count
CheeseEaten ==
    \A direction \in DirSet :
        \A coords \in Movers(direction) \cap PlayerCoords :
            KindAt(grid, Add(coords, direction)) = Cheese =>
                LET s == Settled(coords, direction)
                    there == ObjAt(s.g.grid, Add(coords, direction))
                IN /\ s.shall_move /\ ~s.g.panicked
                   /\ there.kind = Player /\ there.moved
                   /\ CheeseCount(s.g.grid) = CheeseCount(grid) - 1
                   /\ s.g.cheese_count_got_here = cheese_count_got_here + 1

\* C15: each Cheese a Player moves onto is removed and counted once, so that a
\* move command adds to the pending count the number of Cheeses it removed
\* (2 when two Players eat one each), counted from 0 in the level entered if
\* it switched the level; a reset sets the count to 0 and nothing else
\* changes it
C15_CheeseCounting ==
    /\ []CheeseEaten
    /\ [][/\ (last'.op = "move" /\ last'.can_play /\ ~panicked') =>
                IF last'.switches = 0
                THEN cheese_count_got_here' =
                        cheese_count_got_here + CheeseCount(grid) - CheeseCount(grid')
                ELSE cheese_count_got_here' =
                        CheeseCount(EnterGrid(level')) - CheeseCount(grid')
          /\ last'.op = "reset" => cheese_count_got_here' = 0
          /\ (last'.op \in {"shoot", "tick"} \/ ~last'.can_play) =>
                (last'.op = "reset" \/ UNCHANGED cheese_count_got_here)]_vars

\* the first move command in a level has made two Players eat a Cheese each
C15_Witness ==
    /\ last.op = "move" /\ last.can_play /\ last.switches = 0
    /\ step_count = step_count_at_level_start + 1
    /\ cheese_count_got_here = 2
    /\ Cardinality({ coords \in PlayerCoords : ObjAt(grid, coords).moved }) >= 2

\* the tile on which an object that enters the empty Ice tile `first` in
\* direction comes to rest, in the claim's words: `rest` is reached over
\* empty Ice tiles, each with a free tile after it, and is either no Ice or
\* an Ice tile whose next tile is occupied or off the board
RestsOn(first, direction, rest) ==
    \E k \in 0..W :
        /\ rest = Ahead(first, direction, k)
        /\ InGrid(rest)
        /\ ~IsSome(ObjAt(grid, rest))
        /\ \A i \in 0..(k - 1) :
             LET tile == Ahead(first, direction, i) IN
             /\ grid[Index(tile)].ground = Ice
             /\ ~IsSome(ObjAt(grid, tile))
        /\ \/ grid[Index(rest)].ground # Ice
           \/ ~InGrid(Add(rest, direction))
           \/ IsSome(ObjAt(grid, Add(rest, direction)))

\* C16: an object moved onto an empty Ice tile slides on and rests on the
\* first empty tile after the run that is no Ice, or on the last Ice tile
\* before an occupied tile or the board's edge
C16_IceSlide ==
    \A direction \in DirSet :
        \A coords \in Movers(direction) :
            LET first == Add(coords, direction) IN
            (/\ InGrid(first)
             /\ ~IsSome(ObjAt(grid, first))
             /\ grid[Index(first)].ground = Ice) =>
                LET s == Settled(coords, direction) IN
                /\ s.shall_move /\ ~s.g.panicked
                /\ \E rest \in { Coord(i) : i \in TileIdx } :
                     /\ RestsOn(first, direction, rest)
                     /\ KindAt(s.g.grid, rest) = KindAt(grid, coords)
                     /\ ObjAt(s.g.grid, rest).moved
                     /\ \A i \in TileIdx \ {Index(rest), Index(coords)} :
                          s.g.grid[i].obj.kind = grid[i].obj.kind
                /\ ~IsSome(ObjAt(s.g.grid, coords))

\* a move command has pushed a Rock that slid over two Ice tiles or more
C16_Witness ==
    /\ last.op = "move" /\ last.can_play
    /\ \E i \in TileIdx :
         /\ grid[i].obj.kind = Rock /\ grid[i].obj.moved
         /\ \A k \in 1..2 :
              LET passed == Ahead(Coord(i), last.direction, -k) IN
              /\ InGrid(passed)
              /\ grid[Index(passed)].ground = Ice
              /\ ~IsSome(ObjAt(grid, passed))

----------------------------------------------------------------------------
(* Properties of the rays *)

\* one RayAction of each variant
RayActions ==
    { ActionOf(kind, <<0, 0>>) :
        kind \in {RaygunSwapWithShooter, RaygunDuplicateShootee,
                  RaygunTurnIntoTurnInto, RaygunTurnInto(Rock)} }

\* the ray that is about to enter the tile `to` in direction
RayInto(to, direction, action) ==
    [coords |-> Sub(to, direction), direction |-> direction, action |-> action,
     origin |-> Sub(to, direction)]

\* the coordinates of the tiles of g that hold an object
Occupied(g) == { Coord(i) : i \in { j \in TileIdx : IsSome(g[j].obj) } }

\* a ray can be about to enter `to` in direction: it is on the board
Enterable(to, direction) == InGrid(Sub(to, direction))

\* C17: a ray that enters a Mirror, a MirrorSlopeUp or a MirrorSlopeDown takes
\* the mirror's coordinates and leaves with its direction negated, with
\* (-dy, -dx), with (dy, dx); it is not removed and the grid is unchanged
C17_MirrorReflection ==
    \A to \in Occupied(grid) :
        \A direction \in DirSet, action \in RayActions :
            LET kind == KindAt(grid, to)
                r == RayStep(grid, RayInto(to, direction, action))
                dx == direction[1]
                dy == direction[2]
            IN kind \in {Mirror, MirrorSlopeUp, MirrorSlopeDown}
                   /\ Enterable(to, direction) =>
                  /\ ~r.remove
                  /\ r.grid = grid
                  /\ r.ray.coords = to
                  /\ r.ray.action = action
                  /\ kind = Mirror => r.ray.direction = << -dx, -dy >>
                  /\ kind = MirrorSlopeUp => r.ray.direction = << -dy, -dx >>
                  /\ kind = MirrorSlopeDown => r.ray.direction = << dy, dx >>

\* a tick has put a ray that went down onto a MirrorSlopeUp, which it leaves
\* to the left
C17_Witness ==
    /\ last.op = "tick"
    /\ \E i \in 1..Len(rays) :
         /\ KindAt(grid, rays[i].coords) = MirrorSlopeUp
         /\ rays[i].direction = <<-1, 0>>
         /\ rays[i].coords = Add(rays[i].origin, <<0, 1>>)

\* the rank of direction in the loop over the neighbours of player_shoot
DirIndex(direction) == CHOOSE k \in 1..4 : Dirs[k] = direction

\* the object of `to` ends a ray that comes in direction
IsShootee(g, to, direction) ==
    /\ Enterable(to, direction)
    /\ IsSome(ObjAt(g, to))
    /\ ~LetsRayIn(ObjAt(g, to))

\* the tiles whose object ends the rays that reach it
Shootees(g) == { to \in Occupied(g) : ~LetsRayIn(ObjAt(g, to)) }

\* the actions of the rays the TurnInto guns of the grid fire
TurnIntoActions ==
    { ActionOf(grid[i].obj.kind, <<0, 0>>) :
        i \in { j \in TileIdx : /\ IsRaygun(grid[j].obj.kind)
                                 /\ grid[j].obj.kind[2] = "TurnInto" } }

\* C18: a TurnIntoTurnInto ray that ends on an object of kind K puts a
\* Raygun(TurnInto(K)) on that tile, whatever K is; the ray a Player next to
\* that gun fires carries TurnInto{K}, and a TurnInto{K} ray that ends on an
\* object puts a fresh object of kind K on that object's tile
C18_TurnIntoTurnInto ==
    /\ \A to \in Shootees(grid) :
         \A direction \in { d \in DirSet : IsShootee(grid, to, d) } :
            LET K == KindAt(grid, to)
                r == RayStep(grid, RayInto(to, direction,
                                           ActionOf(RaygunTurnIntoTurnInto, <<0, 0>>)))
                fired == NeighboorRays(r.grid, Sub(to, direction), DirIndex(direction))
            IN /\ r.remove
               /\ r.grid = SetObj(grid, to, FromKind(RaygunTurnInto(K)))
               /\ Len(fired) >= 1
               /\ fired[1].coords = to
               /\ fired[1].action.type = "TurnInto"
               /\ fired[1].action.into_what = K
    /\ \A action \in TurnIntoActions :
         \A to \in Shootees(grid) :
            \A direction \in { d \in DirSet : IsShootee(grid, to, d) } :
               LET r == RayStep(grid, RayInto(to, direction, action))
               IN /\ r.remove
                  /\ r.grid = SetObj(grid, to, FromKind(action.into_what))

\* ticks have turned a Rock into a Raygun(TurnInto(Rock)), a
\* Raygun(TurnIntoTurnInto) into a Raygun(TurnInto(Raygun(TurnIntoTurnInto)))
\* and, by the ray of a Raygun(TurnInto(Rock)), another object into a Rock
C18_Witness ==
    /\ last.op = "tick"
    /\ \E i \in TileIdx :
         /\ level.grid[i].obj.kind = Rock
         /\ grid[i].obj.kind = RaygunTurnInto(Rock)
    /\ \E i \in TileIdx :
         /\ level.grid[i].obj.kind = RaygunTurnIntoTurnInto
         /\ grid[i].obj.kind = RaygunTurnInto(RaygunTurnIntoTurnInto)
    /\ \E i \in TileIdx :
         /\ IsSome(level.grid[i].obj)
         /\ level.grid[i].obj.kind # Rock
         /\ grid[i].obj = FromKind(Rock)
         /\ \E d \in DirSet : KindAt(level.grid, Sub(Coord(i), d)) = RaygunTurnInto(Rock)

\* C19: a ray whose next tile holds a Wall is stopped without effect: the ray
\* is removed, the Wall is still a Wall and no tile of the grid has changed
C19_WallsBlockRays ==
    \A i \in 1..Len(rays) :
        LET dst_coords == Add(rays[i].coords, rays[i].direction)
            r == RayStep(grid, rays[i])
        IN KindAt(grid, dst_coords) = Wall =>
              /\ r.remove
              /\ KindAt(r.grid, dst_coords) = Wall
              /\ r.grid = grid

\* the rays in flight that carry Duplicate and whose next tile holds a shootee
DuplicatesLanding ==
    { i \in 1..Len(rays) :
        /\ rays[i].action.type = "Duplicate"
        /\ IsShootee(grid, Add(rays[i].coords, rays[i].direction), rays[i].direction) }

\* C20 as written: the copy of the shootee is placed on the tile of the
\* Raygun that fired the ray, if and only if that tile is empty; the shootee
\* and every other tile are unaffected
C20_DuplicateOntoGunTile ==
    \A i \in DuplicatesLanding :
        LET ray == rays[i]
            K == KindAt(grid, Add(ray.coords, ray.direction))
            r == RayStep(grid, ray)
        IN r.grid = IF ~IsSome(ObjAt(grid, ray.origin))
                    THEN SetObj(grid, ray.origin, FromKind(K))
                    ELSE grid

\* C20, amended: when a Duplicate ray ends on a shootee, a new object of the
\* shootee's kind is placed on the tile the ray is on, the one next to the
\* shootee on the side the ray comes from, if and only if that tile is empty;
\* the ray is removed, the shootee and every other tile are unaffected
C20_DuplicateOntoRayTile ==
    \A to \in Shootees(grid) :
        \A direction \in { d \in DirSet : IsShootee(grid, to, d) } :
            LET K == KindAt(grid, to)
                from == Sub(to, direction)
                r == RayStep(grid, RayInto(to, direction,
                                           ActionOf(RaygunDuplicateShootee, <<0, 0>>)))
            IN /\ r.remove
               /\ ObjAt(r.grid, to) = ObjAt(grid, to)
               /\ r.grid = IF ~IsSome(ObjAt(grid, from))
                            THEN SetObj(grid, from, FromKind(K))
                            ELSE grid

\* a tick has put a copy of a shootee on the free tile between the shootee and
\* the Raygun(DuplicateShootee) that fired
C20_Witness ==
    /\ last.op = "tick"
    /\ \E i \in TileIdx, direction \in DirSet :
         /\ ~IsSome(level.grid[i].obj)
         /\ IsSome(grid[i].obj)
         /\ IsShootee(grid, Add(Coord(i), direction), direction)
         /\ grid[i].obj = FromKind(KindAt(grid, Add(Coord(i), direction)))
         /\ KindAt(grid, Sub(Coord(i), direction)) = RaygunDuplicateShootee

\* the grid with the objects of the tiles a and b exchanged
Exchanged(g, a, b) ==
    [g EXCEPT ![Index(a)].obj = ObjAt(g, b), ![Index(b)].obj = ObjAt(g, a)]

\* the multiset of the objects of a grid: how many tiles hold each
ObjBag(g) ==
    [o \in { g[i].obj : i \in TileIdx } |->
        Cardinality({ i \in TileIdx : g[i].obj = o })]

\* shooter coordinates a SwapWith ray that ends on `to` may carry: the tile of
\* a Player, the tile the level is entered on, the tile before the shootee and
\* the shootee's own tile
ShooterCoords(to, direction) ==
    PlayerCoords \cup {level.entry_coords, Sub(to, direction), to}

\* the tiles of the Rayguns that shoot SwapWith rays
SwapGuns == { c \in Occupied(grid) : KindAt(grid, c) = RaygunSwapWithShooter }

\* the rays in flight that carry SwapWith and whose next tile holds a shootee
SwapsLanding ==
    { i \in 1..Len(rays) :
        /\ rays[i].action.type = "SwapWith"
        /\ IsShootee(grid, Add(rays[i].coords, rays[i].direction), rays[i].direction) }

\* C21: a SwapWith ray that ends on an occupied tile is removed and exchanges
\* the object of that tile with the object of the shooter coordinates it
\* carries; every other tile is unchanged and the multiset of the objects of
\* the grid is preserved, also when the shooter's tile holds no Player any
\* more and when it is the shootee's tile
C21_SwapWith ==
    /\ SwapGuns # {} =>
       \A to \in Shootees(grid) :
         \A direction \in { d \in DirSet : IsShootee(grid, to, d) } :
            \A who \in ShooterCoords(to, direction) :
               LET action == ActionOf(RaygunSwapWithShooter, who)
                   r == RayStep(grid, RayInto(to, direction, action))
               IN /\ action.with_who_coords = who
                  /\ r.remove
                  /\ r.grid = Exchanged(grid, to, who)
                  /\ ObjAt(r.grid, to) = ObjAt(grid, who)
                  /\ ObjAt(r.grid, who) = ObjAt(grid, to)
    /\ \A i \in SwapsLanding :
         LET r == RayStep(grid, rays[i])
         IN /\ r.remove
            /\ ObjBag(r.grid) = ObjBag(grid)
            /\ \A j \in TileIdx :
                  \/ r.grid[j] = grid[j]
                  \/ Coord(j) \in {Add(rays[i].coords, rays[i].direction),
                                   rays[i].action.with_who_coords}

\* a tick has exchanged the Player that shot with a Rock of the level: the
\* Rock is on the entry tile, the Player where the Rock was
C21_Witness ==
    /\ last.op = "tick"
    /\ KindAt(grid, level.entry_coords) = Rock
    /\ ~IsSome(ObjAt(level.grid, level.entry_coords))
    /\ \E i \in TileIdx :
         /\ level.grid[i].obj.kind = Rock
         /\ grid[i].obj.kind = Player
    /\ \E d \in DirSet :
         KindAt(grid, Add(level.entry_coords, d)) = RaygunSwapWithShooter

----------------------------------------------------------------------------
(* Properties of the commands *)

\* the pairs of a Player and the direction of a Raygun next to it
GunPairs ==
    { pair \in PlayerCoords \X DirSet : IsRaygun(KindAt(grid, Add(pair[1], pair[2])) ) }

\* the action the ray of a Raygun of this kind carries when the Player at
\* coords shoots it
CarriedAction(kind, coords) ==
    CASE kind = RaygunSwapWithShooter ->
            [type |-> "SwapWith", with_who_coords |-> coords, into_what |-> << >>]
      [] kind = RaygunDuplicateShootee ->
            [type |-> "Duplicate", with_who_coords |-> <<0, 0>>, into_what |-> << >>]
      [] kind = RaygunTurnIntoTurnInto ->
            [type |-> "TurnIntoTurnInto", with_who_coords |-> <<0, 0>>, into_what |-> << >>]
      [] OTHER ->
            [type |-> "TurnInto", with_who_coords |-> <<0, 0>>,
             into_what |-> Tail(Tail(kind))]

\* C22: an accepted shoot command leaves one ray for every pair of a Player
\* and a Raygun next to it, and no other ray: the ray is on the Raygun's tile,
\* points from the Player to the Raygun and carries the action of the
\* Raygun's kind (SwapWith with that Player's coordinates); the command
\* changes no object's position or kind, no ground, no exit and no counter
C22_Shoot ==
    [][(last'.op = "shoot" /\ last'.can_play) =>
         /\ rays = << >>
         /\ Len(rays') = Cardinality(GunPairs)
         /\ \A pair \in GunPairs :
               \E i \in 1..Len(rays') :
                  /\ rays'[i].coords = Add(pair[1], pair[2])
                  /\ rays'[i].direction = pair[2]
                  /\ rays'[i].action =
                        CarriedAction(KindAt(grid, Add(pair[1], pair[2])), pair[1])
         /\ \A i \in TileIdx :
               /\ grid'[i].obj.kind = grid[i].obj.kind
               /\ grid'[i].ground = grid[i].ground
               /\ grid'[i].exit = grid[i].exit
         /\ UNCHANGED << level, all_levels, Counters, panicked >>]_vars

\* a shoot command was accepted with a Player between several Rayguns
C22_Witness ==
    /\ last.op = "shoot"
    /\ last.can_play
    /\ Len(rays) >= 2
    /\ \E i, j \in 1..Len(rays) : rays[i].action.type # rays[j].action.type

\* the number of tiles between coords and the edge of the board in direction
EdgeRun(coords, direction) ==
    CHOOSE n \in 0..(W + H) :
        InGrid(Ahead(coords, direction, n)) /\ ~InGrid(Ahead(coords, direction, n + 1))

\* the n tiles ahead of coords hold a chain the object of coords pushes: each
\* object can move, is pushed by the one before it and is no Player leaving
\* through an Exit in direction
PushedChain(coords, direction, n) ==
    \A k \in 1..n :
        LET obj == ObjAt(grid, Ahead(coords, direction, k))
            pusher == ObjAt(grid, Ahead(coords, direction, k - 1))
        IN /\ IsSome(obj)
           /\ CanMove(obj)
           /\ Interaction(pusher, obj) = "push"
           /\ ~ExitsLevel(grid[Index(Ahead(coords, direction, k))], direction)

\* the tile as it is but for the animation of its object
Still(tile) == [tile EXCEPT !.obj.animation = "None"]

\* C23: a move whose destination, or the destination of the last object of
\* the chain it pushes, is off the board fails silently: the lookup of the
\* destination gives no tile and the move is not made, every object stays
\* where it is, nothing is destroyed, no counter changes, no level is entered
\* and no error is raised
C23_OffBoardMovesFail ==
    rays = << >> =>
        \A direction \in DirSet :
            \A coords \in Movers(direction) :
                LET n == EdgeRun(coords, direction)
                    g == ObjMove(Cleared, all_levels, coords, direction, FALSE)
                    before == Cleared.grid
                IN PushedChain(coords, direction, n) =>
                      /\ Index(Ahead(coords, direction, n + 1)) = -1
                      /\ ~ShallMove(Cleared.grid, Ahead(coords, direction, n + 1))
                      /\ ~g.panicked
                      /\ g.switches = 0
                      /\ g.level = level
                      /\ g.cheese_count_got_here = cheese_count_got_here
                      /\ \A i \in TileIdx : Still(g.grid[i]) = before[i]
                      /\ \A k \in 0..n :
                            LET obj == ObjAt(g.grid, Ahead(coords, direction, k))
                            IN ~obj.moved /\ obj.animation = "FailingToMoveTo"

\* a move command has left a Player and the two objects ahead of it, the last
\* of them on the edge of the board, failing to move
C23_Witness ==
    /\ last.op = "move" /\ last.can_play
    /\ ~panicked
    /\ \E i \in TileIdx :
         /\ grid[i].obj.kind = Player
         /\ ~InGrid(Ahead(Coord(i), last.direction, 3))
         /\ \A k \in 0..2 :
              LET obj == ObjAt(grid, Ahead(Coord(i), last.direction, k))
              IN IsSome(obj) /\ ~obj.moved /\ obj.animation = "FailingToMoveTo"

\* the kinds C24 is about
IsGunMirrorOrCheese(kind) ==
    IsRaygun(kind) \/ kind \in {Mirror, MirrorSlopeUp, MirrorSlopeDown, Cheese}

\* C24 as written: a move command relocates no Raygun, Mirror, MirrorSlopeUp,
\* MirrorSlopeDown or Cheese: one that is on a tile after the command was on
\* that tile before it
C24_GunsMirrorsCheeseStay ==
    [][(last'.op = "move" /\ last'.can_play /\ last'.switches = 0 /\ ~panicked') =>
          \A i \in TileIdx :
              IsGunMirrorOrCheese(grid'[i].obj.kind) =>
                  grid'[i].obj.kind = grid[i].obj.kind]_vars

\* C24, amended: Rayguns, Mirrors, slope mirrors and Cheeses can move. A push
\* that reaches one of them relocates it to the destination the resolver
\* computes (the next tile, or further over Ice) when that tile is free, and
\* leaves every object in place when that tile holds a Wall or is off the
\* board; a Player that steps into a Cheese eats it and does not push it
C24_GunsMirrorsCheesePushed ==
    rays = << >> =>
        \A coords \in Occupied(grid) :
            IsGunMirrorOrCheese(KindAt(grid, coords)) =>
                /\ CanMove(ObjAt(grid, coords))
                /\ KindAt(grid, coords) = Cheese =>
                      Interaction(FromKind(Player), ObjAt(grid, coords)) = "eat"
                /\ \A direction \in DirSet :
                      LET obj == ObjAt(Cleared.grid, coords)
                          dst == DstOf(coords, direction)
                          g == ObjMove(Cleared, all_levels, coords, direction, TRUE)
                          before == Cleared.grid
                      IN /\ (InGrid(dst) /\ ~IsSome(ObjAt(grid, dst))) =>
                               /\ ~g.panicked /\ g.switches = 0
                               /\ ObjAt(g.grid, dst) =
                                     [obj EXCEPT !.moved = TRUE, !.animation = "CommingFrom"]
                               /\ ~IsSome(ObjAt(g.grid, coords))
                               /\ \A i \in TileIdx \ {Index(coords), Index(dst)} :
                                     g.grid[i].obj = before[i].obj
                         /\ (~InGrid(dst) \/ KindAt(grid, dst) = Wall) =>
                               /\ ~g.panicked /\ g.switches = 0
                               /\ \A i \in TileIdx : Still(g.grid[i]) = before[i]

\* a move command has pushed a Raygun or a mirror to the next tile
C24_Witness ==
    /\ last.op = "move" /\ last.can_play /\ last.switches = 0
    /\ \E i \in TileIdx :
         /\ IsGunMirrorOrCheese(grid[i].obj.kind)
         /\ grid[i].obj.moved
         /\ ~IsSome(level.grid[i].obj)
         /\ KindAt(level.grid, Sub(Coord(i), last.direction)) = grid[i].obj.kind
         /\ KindAt(grid, Sub(Coord(i), last.direction)) = Player

\* the kinds Obj::can_move excludes
IsFixed(kind) == kind \in {Wall, Tree, WallWithHoles, Door}

\* C25: the resolver never relocates a Wall, a Tree, a WallWithHoles or a
\* Door: one that is on a tile after a move command was on that tile before
\* the command or, when the command has entered a level, is there in that
\* level's grid; the only Tree that is new has grown on Sapling ground
C25_FixedObjectsStay ==
    [][(last'.op = "move" /\ last'.can_play /\ ~panicked') =>
          \A i \in TileIdx :
              LET before == IF last'.switches = 0 THEN grid[i] ELSE level'.grid[i]
              IN IsFixed(grid'[i].obj.kind) =>
                    \/ grid'[i].obj.kind = before.obj.kind
                    \/ /\ grid'[i].obj.kind = Tree
                       /\ before.ground.ground = "Sapling"]_vars

\* the object of coords pushes a Key that has a Door on the next tile
PushesKeyIntoDoor(coords, direction) ==
    LET pusher == ObjAt(grid, coords)
        key == ObjAt(grid, Ahead(coords, direction, 1))
    IN /\ key.kind = Key
       /\ KindAt(grid, Ahead(coords, direction, 2)) = Door
       /\ pusher.kind # Soap
       /\ Interaction(pusher, key) = "push"

\* C26: when a Key is pushed into the Door next to it, the Key and the Door
\* are removed from the grid: the Door's tile is left empty, the Key is not
\* put on it, and the object that pushed the Key advances onto the tile the
\* Key was on; no other object changes
C26_KeyOpensDoor ==
    rays = << >> =>
        \A direction \in DirSet :
            \A coords \in Movers(direction) :
                PushesKeyIntoDoor(coords, direction) =>
                    LET s == Settled(coords, direction)
                        after == s.g.grid
                        before == Cleared.grid
                        key == Ahead(coords, direction, 1)
                        door == Ahead(coords, direction, 2)
                    IN /\ ~s.g.panicked /\ s.g.switches = 0
                       /\ s.shall_move
                       /\ ~IsSome(ObjAt(after, door))
                       /\ ~IsSome(ObjAt(after, coords))
                       /\ ObjAt(after, key) =
                             [ObjAt(Cleared.grid, coords) EXCEPT !.moved = TRUE,
                                                                 !.animation = "CommingFrom"]
                       /\ \A i \in TileIdx \ {Index(coords), Index(key), Index(door)} :
                             after[i].obj = before[i].obj
                       /\ Cardinality({ i \in TileIdx : after[i].obj.kind \in {Key, Door} })
                             = Cardinality({ i \in TileIdx : grid[i].obj.kind \in {Key, Door} }) - 2

\* a move command has taken a Player onto the tile of a Key of the level; the
\* Key is gone, and so is the Door that was on the next tile
C26_Witness ==
    /\ last.op = "move" /\ last.can_play /\ last.switches = 0
    /\ \E i \in TileIdx :
         /\ level.grid[i].obj.kind = Key
         /\ grid[i].obj.kind = Player /\ grid[i].obj.moved
         /\ KindAt(level.grid, Ahead(Coord(i), last.direction, 1)) = Door
         /\ ~IsSome(ObjAt(grid, Ahead(Coord(i), last.direction, 1)))
         /\ \A j \in TileIdx : grid[j].obj.kind \notin {Key, Door}

----------------------------------------------------------------------------
(* Properties of the behaviour rules *)

\* tiles that have held an object since the level was entered or reset: the
\* tiles that hold one in the level's grid, and the entry tile
HeldSinceEntered ==
    { i \in TileIdx : IsSome(level.grid[i].obj) \/ Coord(i) = level.entry_coords }

\* C27: when a move command completes, a tile with Sapling ground that has
\* held an object since the level was entered or reset is not left empty with
\* its Sapling: if no object is on it, it has Grass ground and bears a Tree
C27_SaplingGrowth ==
    (last.op = "move" /\ last.can_play /\ last.switches = 0 /\ ~panicked) =>
        \A i \in HeldSinceEntered :
            level.grid[i].ground.ground = "Sapling" =>
                \/ grid[i].obj.kind = Tree /\ grid[i].ground = Grass
                \/ IsSome(grid[i].obj) /\ grid[i].obj.kind # Tree

\* the tiles with Sapling ground
SaplingTiles == { i \in TileIdx : grid[i].ground.ground = "Sapling" }

\* the tiles of the objects that start a cascade: Players and Bunnies
Starters == { Coord(i) : i \in { j \in TileIdx : grid[j].obj.kind \in {Player, Bunny} } }

\* C28: no Tree grows while the resolver works on a move and on the pushes
\* and pulls it causes: every Sapling is still a Sapling when obj_move is
\* done and no Tree is new. A Rope behind a Player that leaves a stepped-on
\* Sapling tile therefore comes onto that tile, which is still a Sapling
C28_GrowthSuppressed ==
    (rays = << >> /\ SaplingTiles # {}) =>
        \A coords \in Starters :
            \A direction \in DirSet :
                LET g == ObjMove(Cleared, all_levels, coords, direction, FALSE)
                    here == grid[Index(coords)]
                    dst == Add(coords, direction)
                IN (~g.panicked /\ g.switches = 0) =>
                      /\ \A i \in SaplingTiles :
                            /\ g.grid[i].ground.ground = "Sapling"
                            /\ g.grid[i].obj.kind = Tree => grid[i].obj.kind = Tree
                      /\ TreeCount(g.grid) <= TreeCount(grid)
                      /\ ( /\ here.obj.kind = Player
                           /\ here.ground = Sapling(TRUE)
                           /\ KindAt(grid, Sub(coords, direction)) = Rope
                           /\ InGrid(dst) /\ ~IsSome(ObjAt(grid, dst)) ) =>
                              /\ KindAt(g.grid, coords) = Rope
                              /\ g.grid[Index(coords)].ground = Sapling(TRUE)

\* a move command has taken a Player off a stepped-on Sapling tile and pulled
\* the Rope behind it onto that tile, which is still a Sapling
C28_Witness ==
    /\ last.op = "move" /\ last.can_play /\ last.switches = 0
    /\ \E i \in TileIdx :
         /\ grid[i].ground = Sapling(TRUE)
         /\ grid[i].obj.kind = Rope /\ grid[i].obj.moved
         /\ LET obj == ObjAt(grid, Add(Coord(i), last.direction))
            IN obj.kind = Player /\ obj.moved

\* the tiles that hold a Bunny
BunnyTiles == { i \in TileIdx : grid[i].obj.kind = Bunny }

\* walking from coords in direction d, the first occupied tile holds a Player
SeenFrom(g, coords, d) ==
    \E k \in 1..(W + H) :
        /\ InGrid(Ahead(coords, d, k))
        /\ KindAt(g, Ahead(coords, d, k)) = Player
        /\ \A j \in 1..(k - 1) : ~IsSome(ObjAt(g, Ahead(coords, d, j)))

\* the tile on the side opposite to d exists and is empty or holds an object
\* that can move
Retreatable(g, coords, d) ==
    /\ InGrid(Sub(coords, d))
    /\ KindAt(g, Sub(coords, d)) \notin {Wall, Tree, WallWithHoles, Door}

\* the sum of the directions the Bunny of coords is seen from and can retreat
\* from
FleeSum(g, coords) ==
    LET n(d) == IF SeenFrom(g, coords, d) /\ Retreatable(g, coords, d) THEN 1 ELSE 0
    IN << n(<<1, 0>>) - n(<<-1, 0>>), n(<<0, 1>>) - n(<<0, -1>>) >>

\* the grid at the start of a bunny phase, and that grid with one more Player
\* two tiles from the Bunny of coords
WithOnePlayerMore(coords) ==
    {Cleared.grid} \cup
    { SetObj(Cleared.grid, c, FromKind(Player)) :
        c \in { t \in { Ahead(coords, d, 2) : d \in DirSet } :
                   InGrid(t) /\ ~IsSome(ObjAt(grid, t)) } }

\* C29: a Bunny is seen from the directions in which the first occupied tile
\* is a Player; of these count those whose opposite neighbouring tile exists
\* and is empty or holds a movable object. When they sum to a unit vector d,
\* the bunny phase makes one resolver move of the Bunny in direction -d with
\* pushed = false; when they sum to zero or to a diagonal, or no Player is in
\* sight, the Bunny is not moved
C29_BunnyFlees ==
    rays = << >> =>
        \A j \in BunnyTiles :
            /\ \A g \in WithOnePlayerMore(Coord(j)) :
                  LET sum == FleeSum(g, Coord(j))
                  IN /\ (j \in ScaredBunnies(g)) <=> (sum \in DirSet)
                     /\ sum \in DirSet => Neg(ScarredDir(g, Coord(j))) = Neg(sum)
                     /\ LineOfSightsTo(g, Coord(j), Player) = {} => sum = <<0, 0>>
            /\ BunnyTiles = {j} =>
                  LET sum == FleeSum(Cleared.grid, Coord(j))
                      marked == [Cleared EXCEPT !.grid[j].obj.processed = TRUE]
                  IN SameGame(HandleBunnies(Cleared, all_levels),
                              IF sum \in DirSet
                              THEN ObjMove(marked, all_levels, Coord(j), Neg(sum), FALSE)
                              ELSE Cleared)

\* a move command has ended with a Bunny that fled from the Player it saw next
\* to it, and that no Player sees any more from that side
C29_Witness ==
    /\ last.op = "move" /\ last.can_play /\ last.switches = 0
    /\ \E i \in BunnyTiles, d \in DirSet :
         /\ grid[i].obj.processed /\ grid[i].obj.moved
         /\ ~IsSome(ObjAt(grid, Add(Coord(i), d)))
         /\ KindAt(grid, Ahead(Coord(i), d, 2)) = Player
         /\ KindAt(level.grid, Add(Coord(i), d)) = Bunny

\* the first tile from i on that holds a Player neither processed nor moved
\* (W * H when there is none)
NextPlayer(g, i) ==
    LET todo == { t \in i..(W * H - 1) :
                    /\ g.grid[t].obj.kind = Player
                    /\ ~g.grid[t].obj.processed
                    /\ ~g.grid[t].obj.moved }
    IN IF todo = {} THEN W * H
       ELSE CHOOSE t \in todo : \A u \in todo : t <= u

\* the own move of the Player of tile j: it is marked processed, then moved
OwnStep(g, direction, j) ==
    ObjMove([g EXCEPT !.grid[j].obj.processed = TRUE], all_levels,
            Coord(j), direction, FALSE)

\* from g to g1 no Player that had moved already has left its tile
MovedStay(g, g1) ==
    \A t \in TileIdx :
        (g.grid[t].obj.kind = Player /\ g.grid[t].obj.moved) =>
            /\ g1.grid[t].obj.kind = Player
            /\ g1.grid[t].obj.processed = g.grid[t].obj.processed

RECURSIVE OwnSteps(_, _, _)
\* from tile i on, in row-major order, one own move for each Player found
\* neither processed nor moved, and for no other
OwnSteps(g, direction, i) ==
    LET j == NextPlayer(g, i) IN
    IF j >= W * H \/ g.panicked THEN g
    ELSE OwnSteps(OwnStep(g, direction, j), direction, j + 1)

RECURSIVE RelocatedOnce(_, _, _)
\* in the rest of the Player scan from tile i on, no own move in the same
\* level relocates a Player that was relocated before
RelocatedOnce(g, direction, i) ==
    LET j == NextPlayer(g, i) IN
    IF j >= W * H \/ g.panicked THEN TRUE
    ELSE LET g1 == CHOOSE r \in {OwnStep(g, direction, j)} : TRUE
         IN /\ g1.switches = g.switches => MovedStay(g, g1)
            /\ RelocatedOnce(g1, direction, j + 1)

\* every flag is false when a move or a shoot command starts its scan
FlagsCleared ==
    LET before == Cleared.grid
    IN \A t \in TileIdx :
          IsSome(before[t].obj) => ~before[t].obj.processed /\ ~before[t].obj.moved

C31_QuietTickKeepsGrid ==
    [][(last'.op = "tick" /\ Len(rays') = Len(rays)) =>
          \A i \in TileIdx :
              /\ grid'[i].obj = grid[i].obj
              /\ grid'[i].ground = grid[i].ground]_vars

\* C31, amended: sapling handling with growth enabled is run after every
\* tick, so after a tick no occupied Sapling is left unmarked and no free
\* marked Sapling is left without its Tree. A tick in which no ray
\* terminates leaves the objects of every tile unchanged and changes the
\* ground only by marking the Saplings that are under an object
C31_SaplingsAfterEveryTick ==
    [][last'.op = "tick" =>
          /\ \A i \in TileIdx :
                grid'[i].ground.ground = "Sapling" =>
                    (grid'[i].ground.stepped_on <=> IsSome(grid'[i].obj))
          /\ Len(rays') = Len(rays) =>
                \A i \in TileIdx :
                    /\ grid'[i].obj = grid[i].obj
                    /\ \/ grid'[i].ground = grid[i].ground
                       \/ /\ grid[i].ground = Sapling(FALSE)
                          /\ IsSome(grid[i].obj)
                          /\ grid'[i].ground = Sapling(TRUE)]_vars

\* the first tick after a shoot command has removed no ray and has marked a
\* Sapling that the level holds unmarked under an object
C31_Witness ==
    /\ last.op = "tick"
    /\ Len(rays) = Cardinality(GunPairs)
    /\ rays # << >>
    /\ \A i \in 1..Len(rays) :
         LET d == Sub(rays[i].coords, rays[i].origin)
         IN Abs(d[1]) + Abs(d[2]) = 1
    /\ \E i \in TileIdx :
         /\ level.grid[i].ground = Sapling(FALSE)
         /\ IsSome(level.grid[i].obj)
         /\ grid[i].obj = level.grid[i].obj
         /\ grid[i].ground = Sapling(TRUE)

\* the rays in flight whose next tile is off the board
RaysLeaving ==
    { i \in 1..Len(rays) :
        LET next == Add(rays[i].coords, rays[i].direction)
        IN next[1] < 0 \/ next[1] >= W \/ next[2] < 0 \/ next[2] >= H }

\* C32: every ray in flight has coordinates inside the grid and one of the
\* four cardinal unit vectors as its direction; a ray whose next tile is off
\* the board is removed by its step, which leaves the grid as it is
C32_RaysWellFormed ==
    /\ \A i \in 1..Len(rays) :
         /\ 0 <= rays[i].coords[1] /\ rays[i].coords[1] < W
         /\ 0 <= rays[i].coords[2] /\ rays[i].coords[2] < H
         /\ rays[i].direction \in {<<1, 0>>, <<0, 1>>, <<-1, 0>>, <<0, -1>>}
    /\ \A i \in RaysLeaving :
         LET r == RayStep(grid, rays[i])
         IN /\ r.remove
            /\ \A t \in TileIdx : r.grid[t] = grid[t]

\* ticks have taken a ray from its Raygun to the edge of the board, which it
\* faces
C32_Witness ==
    /\ last.op = "tick"
    /\ \E i \in RaysLeaving : rays[i].coords # rays[i].origin

RECURSIVE MoveDepth(_, _, _, _)
\* the number of nested obj_move frames the call obj_move(coords, direction,
\* pushed) reaches on g, itself included: the push it makes from the first
\* look at the destination, then the pull it makes on the tile behind
MoveDepth(g, coords, direction, pushed) ==
    IF ~IsSome(ObjAt(g.grid, coords)) THEN 1
    ELSE IF ExitsLevel(g.grid[Index(coords)], direction) THEN 1
    ELSE IF ~CanMove(ObjAt(g.grid, coords)) THEN 1
    ELSE LET coords_dst == SlideDst(g.grid, Add(coords, direction), direction)
             obj_dst == ObjAt(g.grid, coords_dst)
             pushes == /\ IsSome(obj_dst)
                       /\ Interaction(ObjAt(g.grid, coords), obj_dst) = "push"
             s == Settle(SoapAgain(Contact(g, all_levels, coords, coords_dst, direction),
                                   coords_dst),
                         coords, coords_dst)
             pulls == /\ ~s.g.panicked
                      /\ s.shall_move
                      /\ ~pushed
                      /\ PullsRope(s.g.grid, Sub(coords, direction), s.obj_is_rope)
             ahead == IF pushes
                      THEN MoveDepth(g, coords_dst, direction, TRUE)
                      ELSE 0
             behind == IF pulls
                       THEN MoveDepth(s.g, Sub(coords, direction), direction, FALSE)
                       ELSE 0
         IN 1 + (IF ahead >= behind THEN ahead ELSE behind)

\* C33: a move command runs to completion. A push goes to a tile strictly
\* ahead of the pushing object in the direction of the move, a pull to the
\* tile behind it, and only a move that is not itself a push pulls; so the
\* nesting of the resolver, for the move of a Player and for the flight of a
\* Bunny, is at most the number of tiles behind the mover plus the number of
\* tiles before it, W + H at most and so below the grid area W * H, and
\* the move command of every direction ends, with the step counted
C33_MoveTerminates ==
    [](rays = << >> =>
         /\ \A coords \in Occupied(grid) :
               \A direction \in DirSet :
                  \E k \in 1..(W + H) :
                     DstOf(coords, direction) = Ahead(coords, direction, k)
         /\ \A coords \in Starters :
               \A direction \in DirSet :
                  MoveDepth(Cleared, coords, direction, FALSE) <= W + H
         /\ \A direction \in DirSet :
               LET g == PlayerMove(Game, all_levels, direction)
               IN g.panicked \/ g.step_count = step_count + 1)

\* a move command has ended in a state from which the move of a Player nests
\* the resolver three deep or deeper
C33_Witness ==
    /\ last.op = "move" /\ last.can_play
    /\ \E coords \in PlayerCoords, direction \in DirSet :
         MoveDepth(Cleared, coords, direction, FALSE) >= 3


----------------------------------------------------------------------------
(* C34: the objects a move command leaves on the grid *)

\* the kinds of the objects of a grid
KindsOf(g) == { g[i].obj.kind : i \in TileIdx } \ { << >> }

\* how many tiles of a grid hold an object of a kind
Count(g, kind) == Cardinality({ i \in TileIdx : g[i].obj.kind = kind })

\* the tiles whose Tree is gone from the second grid
TreesLost(g, g1) ==
    { i \in TileIdx : g[i].obj.kind = Tree /\ g1[i].obj.kind # Tree }

\* the tiles that hold a Tree in the second grid only
TreesGained(g, g1) ==
    { i \in TileIdx : g[i].obj.kind # Tree /\ g1[i].obj.kind = Tree }

\* C34: a move command that switches no level keeps, kind by kind, the number
\* of objects on the grid, but for the Cheeses the Players ate (counted by
\* cheese_count_got_here), the Keys gone with as many Doors, the Trees gone
\* where an Axe moved, and the Trees grown on bare Sapling ground that turned
\* to Grass; a Tree that stays stays on its tile.
C34_ObjectsConserved ==
    [][(last'.op = "move" /\ last'.can_play /\ last'.switches = 0 /\ ~panicked') =>
          /\ \A kind \in (KindsOf(grid) \cup KindsOf(grid')) \ {Tree, Cheese, Key, Door} :
                Count(grid', kind) = Count(grid, kind)
          /\ cheese_count_got_here' >= cheese_count_got_here
          /\ Count(grid', Cheese) =
                Count(grid, Cheese) - (cheese_count_got_here' - cheese_count_got_here)
          /\ Count(grid', Key) <= Count(grid, Key)
          /\ Count(grid, Key) - Count(grid', Key) = Count(grid, Door) - Count(grid', Door)
          /\ TreesLost(grid, grid') # {} =>
                \E i \in TileIdx : grid'[i].obj.kind = Axe /\ grid'[i].obj.moved
          /\ \A i \in TreesGained(grid, grid') :
                /\ grid[i].ground.ground = "Sapling"
                /\ grid'[i].ground.ground = "Grass"]_vars

\* a move on one level has cut a Tree, eaten a Cheese or opened a Door
C34_Witness ==
    /\ last.op = "move" /\ last.can_play /\ last.switches = 0 /\ ~panicked
    /\ step_count = step_count_at_level_start + 1
    /\ reset_count = 0
    /\ Count(grid, Key) < Count(level.grid, Key)
    /\ Count(grid, Door) < Count(level.grid, Door)

====
